---- MODULE Spec2Model ----
(***************************************************************************)
(* Verification model of parts of the sonora audio-processing library:     *)
(*   - EchoCanceller3Config::validate        (sonora-aec3/src/config.rs)   *)
(*   - TransparentMode / HmmTransparentMode  (sonora-aec3/src/             *)
(*                                            transparent_mode.rs)         *)
(* f32 values are modelled by their IEEE-754 binary32 fields (sign,        *)
(* biased exponent, fraction); arithmetic on them is round-to-nearest-even *)
(* as performed by the hardware.                                           *)
(***************************************************************************)
EXTENDS Integers, Sequences, FiniteSets, TLC

VARIABLES
    cfg,        \* the EchoCanceller3Config being validated / used
    prev_cfg,   \* the config as it was before the most recent validate call
    rets,       \* return values of the validate calls made so far, in order
    panicked,   \* TRUE when a validate call has panicked
    overflowed, \* TRUE when a bound computation of validate has overflowed
    tm,         \* the transparent-mode detector (Option<TransparentMode>)
    run,        \* bookkeeping of the update sequence fed to the detector
    est,        \* the SubbandErleEstimator
    fir,        \* the h2 partitions and the erl buffer of compute_erl
    spe,        \* the SpeechProbabilityEstimator
    conv,       \* a Config, its WapConfig and the Config converted back
    cng,        \* the ComfortNoiseGenerator and its caller's noise buffers
    gen,        \* generate_comfort_noise: its arguments and results
    sfx         \* the SpectralFeaturesExtractor and its last return value

vars == << cfg, prev_cfg, rets, panicked, overflowed, tm, run, est, fir, spe, conv, cng, gen, sfx >>

\* Number of validate calls made so far, and what the latest one returned.
calls == Len(rets)
ret == rets[Len(rets)]

(***************************************************************************)
(* Bounds of the model.                                                    *)
(***************************************************************************)
\* length_blocks / num_sections inputs range over 0..MaxLenBlocks.
MaxLenBlocks == 3
\* Number of consecutive validate calls on one config.
MaxCalls == 2

(***************************************************************************)
(* IEEE-754 binary32.                                                      *)
(***************************************************************************)
F32(s, e, m) == [s |-> s, e |-> e, m |-> m]

Pow2(n) == 2 ^ n

F32Zero == F32(0, 0, 0)
F32NegZero == F32(1, 0, 0)
F32One == F32(0, 127, 0)
F32NaN == F32(0, 255, 4194304)
F32Inf == F32(0, 255, 0)
F32NegInf == F32(1, 255, 0)

is_nan(x) == x.e = 255 /\ x.m # 0

is_finite(x) == x.e # 255

\* Position of a non-NaN value on the real line (both zeros map to 0).
F32Key(x) ==
    LET mag == x.e * Pow2(23) + x.m
    IN  IF x.s = 1 THEN 0 - mag ELSE mag

F32Lt(a, b) == ~is_nan(a) /\ ~is_nan(b) /\ F32Key(a) < F32Key(b)

F32Le(a, b) == ~is_nan(a) /\ ~is_nan(b) /\ F32Key(a) <= F32Key(b)

F32Gt(a, b) == F32Lt(b, a)

F32Eq(a, b) == ~is_nan(a) /\ ~is_nan(b) /\ F32Key(a) = F32Key(b)

\* f32::clamp: panics unless min <= max, NaN stays NaN.
f32_clamp(x, min, max) ==
    LET x1 == IF F32Lt(x, min) THEN min ELSE x
        x2 == IF F32Gt(x1, max) THEN max ELSE x1
    IN  [value |-> x2, panic |-> ~F32Le(min, max)]

\* f32::min: if one argument is NaN the other is returned.
f32_min(a, b) ==
    IF is_nan(a) THEN b
    ELSE IF is_nan(b) THEN a
    ELSE IF F32Lt(b, a) THEN b ELSE a

\* Ord::clamp on usize / i32: panics unless min <= max.
int_clamp(x, min, max) ==
    [value |-> IF x < min THEN min ELSE IF x > max THEN max ELSE x,
     panic |-> ~(min <= max)]

I32Max == 2147483647
I32Min == -2147483647 - 1

(***************************************************************************)
(* f32 arithmetic: exact result of the operation on the operands' values,  *)
(* rounded to nearest, ties to even.  A finite value is sign * M * 2^E     *)
(* with an integer significand M.                                          *)
(***************************************************************************)
\* Integer significand and exponent of a finite value.
Significand(x) == IF x.e = 0 THEN x.m ELSE Pow2(23) + x.m

Exponent(x) == IF x.e = 0 THEN -149 ELSE x.e - 150

is_zero(x) == x.e = 0 /\ x.m = 0

RECURSIVE BitLen(_)
\* Number of bits of n >= 0 (0 for n = 0).
BitLen(n) == IF n = 0 THEN 0 ELSE 1 + BitLen(n \div 2)

\* Rounds sign * (M + t) * 2^E to f32, where 0 <= t < 1 and t > 0 iff sticky.
\* M < 2^30; when sticky is set M has at least 26 bits.
f32_round(sign, M, E, sticky) ==
    IF M = 0 THEN F32(sign, 0, 0)
    ELSE
    LET len == BitLen(M)
        e0 == E + (len - 24) + 150
        \* right shift that leaves 24 bits (fewer for a subnormal result)
        shift == IF e0 >= 1 THEN len - 24 ELSE (len - 24) + (1 - e0)
        e1 == IF e0 >= 1 THEN e0 ELSE 0
        q == IF shift <= 0 THEN M * Pow2(0 - shift)
             ELSE IF shift >= 31 THEN 0 ELSE M \div Pow2(shift)
        rem == IF shift <= 0 THEN 0
               ELSE IF shift >= 31 THEN M ELSE M % Pow2(shift)
        half == IF shift <= 0 THEN 1
                ELSE IF shift >= 31 THEN Pow2(30) ELSE Pow2(shift - 1)
        up == IF shift <= 0 THEN FALSE
              ELSE IF shift >= 32 THEN FALSE
              ELSE \/ rem > half
                   \/ (rem = half /\ (sticky \/ q % 2 = 1))
        r == IF up THEN q + 1 ELSE q
        \* e1 = 0 holds the subnormals: a carry into bit 23 makes it normal
        bits == IF e1 = 0 THEN r ELSE (e1 - 1) * Pow2(23) + r
        e == bits \div Pow2(23)
        m == bits % Pow2(23)
    IN  IF e1 >= 255 \/ e >= 255 THEN F32(sign, 255, 0) ELSE F32(sign, e, m)

\* Magnitude order of two finite values.
MagLt(a, b) == a.e * Pow2(23) + a.m < b.e * Pow2(23) + b.m

\* |a| + |b| (sub = FALSE) or |a| - |b| (sub = TRUE) for finite |a| >= |b|,
\* with the sign given: three extra bits, the bits shifted out of b are
\* kept as a sticky bit in the last position.
f32_add_mag(sign, a, b, sub) ==
    LET Ma == Significand(a) * 8
        Mb == Significand(b) * 8
        d == Exponent(a) - Exponent(b)
        Mb_sh == IF d >= 27 THEN (IF Mb = 0 THEN 0 ELSE 1)
                 ELSE (Mb \div Pow2(d)) + (IF Mb % Pow2(d) = 0 THEN 0 ELSE
                                           IF (Mb \div Pow2(d)) % 2 = 1 THEN 0 ELSE 1)
        S == IF sub THEN Ma - Mb_sh ELSE Ma + Mb_sh
    IN  IF S = 0 THEN F32Zero
        ELSE f32_round(sign, S, Exponent(a) - 3, FALSE)

\* a + b
f32_add(a, b) ==
    IF is_nan(a) \/ is_nan(b) THEN F32NaN
    ELSE IF ~is_finite(a) \/ ~is_finite(b) THEN
        IF is_finite(b) THEN a
        ELSE IF is_finite(a) THEN b
        ELSE IF a.s = b.s THEN a ELSE F32NaN
    ELSE IF is_zero(a) /\ is_zero(b) THEN
        (IF a.s = 1 /\ b.s = 1 THEN F32NegZero ELSE F32Zero)
    ELSE IF MagLt(a, b)
         THEN f32_add_mag(b.s, b, a, a.s # b.s)
         ELSE f32_add_mag(a.s, a, b, a.s # b.s)

f32_neg(a) == [a EXCEPT !.s = 1 - a.s]

\* a - b
f32_sub(a, b) == f32_add(a, f32_neg(b))

\* a * b
f32_mul(a, b) ==
    LET sign == IF a.s = b.s THEN 0 ELSE 1
    IN
    IF is_nan(a) \/ is_nan(b) THEN F32NaN
    ELSE IF ~is_finite(a) \/ ~is_finite(b) THEN
        (IF is_zero(a) \/ is_zero(b) THEN F32NaN ELSE F32(sign, 255, 0))
    ELSE
    LET Ma == Significand(a)
        Mb == Significand(b)
        a1 == Ma \div 4096
        a0 == Ma % 4096
        b1 == Mb \div 4096
        b0 == Mb % 4096
        cross == a1 * b0 + a0 * b1
        low == (cross % 4096) * 4096 + a0 * b0
        lo == low % Pow2(24)
        hi == a1 * b1 + cross \div 4096 + low \div Pow2(24)
        \* Ma * Mb = hi * 2^24 + lo; keep hi and the top four bits of lo
        M == hi * 16 + lo \div Pow2(20)
    IN  f32_round(sign, M, Exponent(a) + Exponent(b) + 20, lo % Pow2(20) # 0)

RECURSIVE LongDiv(_, _, _, _)
\* n more quotient bits of r / d (r < d), appended to q.
LongDiv(q, r, d, n) ==
    IF n = 0 THEN [q |-> q, r |-> r]
    ELSE IF 2 * r >= d THEN LongDiv(2 * q + 1, 2 * r - d, d, n - 1)
         ELSE LongDiv(2 * q, 2 * r, d, n - 1)

\* a / b
f32_div(a, b) ==
    LET sign == IF a.s = b.s THEN 0 ELSE 1
    IN
    IF is_nan(a) \/ is_nan(b) THEN F32NaN
    ELSE IF ~is_finite(a) THEN (IF is_finite(b) THEN F32(sign, 255, 0) ELSE F32NaN)
    ELSE IF ~is_finite(b) THEN F32(sign, 0, 0)
    ELSE IF is_zero(b) THEN (IF is_zero(a) THEN F32NaN ELSE F32(sign, 255, 0))
    ELSE IF is_zero(a) THEN F32(sign, 0, 0)
    ELSE
    LET Ma == Significand(a)
        Mb == Significand(b)
        \* scale a subnormal divisor / dividend up to 24 bits
        sa == 24 - BitLen(Ma)
        sb == 24 - BitLen(Mb)
        Na == Ma * Pow2(sa)
        Nb == Mb * Pow2(sb)
        d == LongDiv(Na \div Nb, Na % Nb, Nb, 26)
    IN  f32_round(sign, d.q, (Exponent(a) - sa) - (Exponent(b) - sb) - 26, d.r # 0)

(***************************************************************************)
(* EchoCanceller3Config: one entry per leaf field, named by its path    *)
(* with "__" between the path components.                                 *)
(***************************************************************************)
DefaultConfig ==
    [buffering__excess_render_detection_interval_blocks |-> 250,
     buffering__max_allowed_excess_render_blocks |-> 8,
     delay__default_delay |-> 5,
     delay__down_sampling_factor |-> 4,
     delay__num_filters |-> 5,
     delay__delay_headroom_samples |-> 32,
     delay__hysteresis_limit_blocks |-> 1,
     delay__fixed_capture_delay_samples |-> 0,
     delay__delay_estimate_smoothing |-> F32(0, 126, 3355443),  \* 0.7
     delay__delay_estimate_smoothing_delay_found |-> F32(0, 126, 3355443),  \* 0.7
     delay__delay_candidate_detection_threshold |-> F32(0, 124, 5033165),  \* 0.2
     delay__delay_selection_thresholds__initial |-> 5,
     delay__delay_selection_thresholds__converged |-> 20,
     delay__use_external_delay_estimator |-> FALSE,
     delay__log_warning_on_delay_changes |-> FALSE,
     delay__render_alignment_mixing__downmix |-> FALSE,
     delay__render_alignment_mixing__adaptive_selection |-> TRUE,
     delay__render_alignment_mixing__activity_power_threshold |-> F32(0, 140, 1851392),  \* 10000.0
     delay__render_alignment_mixing__prefer_first_two_channels |-> TRUE,
     delay__capture_alignment_mixing__downmix |-> FALSE,
     delay__capture_alignment_mixing__adaptive_selection |-> TRUE,
     delay__capture_alignment_mixing__activity_power_threshold |-> F32(0, 140, 1851392),  \* 10000.0
     delay__capture_alignment_mixing__prefer_first_two_channels |-> FALSE,
     delay__detect_pre_echo |-> TRUE,
     filter__refined__length_blocks |-> 13,
     filter__refined__leakage_converged |-> F32(0, 112, 5355287),  \* 5e-05
     filter__refined__leakage_diverged |-> F32(0, 122, 5033165),  \* 0.05
     filter__refined__error_floor |-> F32(0, 117, 201327),  \* 0.001
     filter__refined__error_ceil |-> F32(0, 128, 0),  \* 2.0
     filter__refined__noise_gate |-> F32(0, 151, 1649064),  \* 20075344.0
     filter__coarse__length_blocks |-> 13,
     filter__coarse__rate |-> F32(0, 126, 3355443),  \* 0.7
     filter__coarse__noise_gate |-> F32(0, 151, 1649064),  \* 20075344.0
     filter__refined_initial__length_blocks |-> 12,
     filter__refined_initial__leakage_converged |-> F32(0, 119, 2348810),  \* 0.005
     filter__refined_initial__leakage_diverged |-> F32(0, 126, 0),  \* 0.5
     filter__refined_initial__error_floor |-> F32(0, 117, 201327),  \* 0.001
     filter__refined_initial__error_ceil |-> F32(0, 128, 0),  \* 2.0
     filter__refined_initial__noise_gate |-> F32(0, 151, 1649064),  \* 20075344.0
     filter__coarse_initial__length_blocks |-> 12,
     filter__coarse_initial__rate |-> F32(0, 126, 6710886),  \* 0.9
     filter__coarse_initial__noise_gate |-> F32(0, 151, 1649064),  \* 20075344.0
     filter__config_change_duration_blocks |-> 250,
     filter__initial_state_seconds |-> F32(0, 128, 2097152),  \* 2.5
     filter__coarse_reset_hangover_blocks |-> 25,
     filter__conservative_initial_phase |-> FALSE,
     filter__enable_coarse_filter_output_usage |-> TRUE,
     filter__use_linear_filter |-> TRUE,
     filter__high_pass_filter_echo_reference |-> FALSE,
     filter__export_linear_aec_output |-> FALSE,
     erle__min |-> F32(0, 127, 0),  \* 1.0
     erle__max_l |-> F32(0, 129, 0),  \* 4.0
     erle__max_h |-> F32(0, 127, 4194304),  \* 1.5
     erle__onset_detection |-> TRUE,
     erle__num_sections |-> 1,
     erle__clamp_quality_estimate_to_zero |-> TRUE,
     erle__clamp_quality_estimate_to_one |-> TRUE,
     ep_strength__default_gain |-> F32(0, 127, 0),  \* 1.0
     ep_strength__default_len |-> F32(0, 126, 5536481),  \* 0.83
     ep_strength__nearend_len |-> F32(0, 126, 5536481),  \* 0.83
     ep_strength__echo_can_saturate |-> TRUE,
     ep_strength__bounded_erl |-> FALSE,
     ep_strength__erle_onset_compensation_in_dominant_nearend |-> FALSE,
     ep_strength__use_conservative_tail_frequency_response |-> TRUE,
     echo_audibility__low_render_limit |-> F32(0, 135, 0),  \* 256.0
     echo_audibility__normal_render_limit |-> F32(0, 133, 0),  \* 64.0
     echo_audibility__floor_power |-> F32(0, 134, 0),  \* 128.0
     echo_audibility__audibility_threshold_lf |-> F32(0, 130, 2097152),  \* 10.0
     echo_audibility__audibility_threshold_mf |-> F32(0, 130, 2097152),  \* 10.0
     echo_audibility__audibility_threshold_hf |-> F32(0, 130, 2097152),  \* 10.0
     echo_audibility__use_stationarity_properties |-> FALSE,
     echo_audibility__use_stationarity_properties_at_init |-> FALSE,
     render_levels__active_render_limit |-> F32(0, 133, 4718592),  \* 100.0
     render_levels__poor_excitation_render_limit |-> F32(0, 134, 1441792),  \* 150.0
     render_levels__poor_excitation_render_limit_ds8 |-> F32(0, 131, 2097152),  \* 20.0
     render_levels__render_power_gain_db |-> F32(0, 0, 0),  \* 0.0
     echo_removal_control__has_clock_drift |-> FALSE,
     echo_removal_control__linear_and_stable_echo_path |-> FALSE,
     echo_removal_control__transparent_mode |-> "Legacy",
     echo_model__noise_floor_hold |-> 50,
     echo_model__min_noise_floor_power |-> F32(0, 147, 4718592),  \* 1638400.0
     echo_model__stationary_gate_slope |-> F32(0, 130, 2097152),  \* 10.0
     echo_model__noise_gate_power |-> F32(0, 141, 5696215),  \* 27509.42
     echo_model__noise_gate_slope |-> F32(0, 125, 1677722),  \* 0.3
     echo_model__render_pre_window_size |-> 1,
     echo_model__render_post_window_size |-> 1,
     echo_model__model_reverb_in_nonlinear_mode |-> TRUE,
     comfort_noise__noise_floor_dbfs |-> F32(1, 133, 4198768),  \* -96.03406
     suppressor__nearend_average_blocks |-> 4,
     suppressor__normal_tuning__mask_lf__enr_transparent |-> F32(0, 125, 1677722),  \* 0.3
     suppressor__normal_tuning__mask_lf__enr_suppress |-> F32(0, 125, 5033165),  \* 0.4
     suppressor__normal_tuning__mask_lf__emr_transparent |-> F32(0, 125, 1677722),  \* 0.3
     suppressor__normal_tuning__mask_hf__enr_transparent |-> F32(0, 123, 1006633),  \* 0.07
     suppressor__normal_tuning__mask_hf__enr_suppress |-> F32(0, 123, 5033165),  \* 0.1
     suppressor__normal_tuning__mask_hf__emr_transparent |-> F32(0, 125, 1677722),  \* 0.3
     suppressor__normal_tuning__max_inc_factor |-> F32(0, 128, 0),  \* 2.0
     suppressor__normal_tuning__max_dec_factor_lf |-> F32(0, 125, 0),  \* 0.25
     suppressor__nearend_tuning__mask_lf__enr_transparent |-> F32(0, 127, 754975),  \* 1.09
     suppressor__nearend_tuning__mask_lf__enr_suppress |-> F32(0, 127, 838861),  \* 1.1
     suppressor__nearend_tuning__mask_lf__emr_transparent |-> F32(0, 125, 1677722),  \* 0.3
     suppressor__nearend_tuning__mask_hf__enr_transparent |-> F32(0, 123, 5033165),  \* 0.1
     suppressor__nearend_tuning__mask_hf__enr_suppress |-> F32(0, 125, 1677722),  \* 0.3
     suppressor__nearend_tuning__mask_hf__emr_transparent |-> F32(0, 125, 1677722),  \* 0.3
     suppressor__nearend_tuning__max_inc_factor |-> F32(0, 128, 0),  \* 2.0
     suppressor__nearend_tuning__max_dec_factor_lf |-> F32(0, 125, 0),  \* 0.25
     suppressor__lf_smoothing_during_initial_phase |-> TRUE,
     suppressor__last_permanent_lf_smoothing_band |-> 0,
     suppressor__last_lf_smoothing_band |-> 5,
     suppressor__last_lf_band |-> 5,
     suppressor__first_hf_band |-> 8,
     suppressor__dominant_nearend_detection__enr_threshold |-> F32(0, 125, 0),  \* 0.25
     suppressor__dominant_nearend_detection__enr_exit_threshold |-> F32(0, 130, 2097152),  \* 10.0
     suppressor__dominant_nearend_detection__snr_threshold |-> F32(0, 131, 7340032),  \* 30.0
     suppressor__dominant_nearend_detection__hold_duration |-> 50,
     suppressor__dominant_nearend_detection__trigger_threshold |-> 12,
     suppressor__dominant_nearend_detection__use_during_initial_phase |-> TRUE,
     suppressor__dominant_nearend_detection__use_unbounded_echo_spectrum |-> TRUE,
     suppressor__subband_nearend_detection__nearend_average_blocks |-> 1,
     suppressor__subband_nearend_detection__subband1__low |-> 1,
     suppressor__subband_nearend_detection__subband1__high |-> 1,
     suppressor__subband_nearend_detection__subband2__low |-> 1,
     suppressor__subband_nearend_detection__subband2__high |-> 1,
     suppressor__subband_nearend_detection__nearend_threshold |-> F32(0, 127, 0),  \* 1.0
     suppressor__subband_nearend_detection__snr_threshold |-> F32(0, 127, 0),  \* 1.0
     suppressor__use_subband_nearend_detection |-> FALSE,
     suppressor__high_bands_suppression__enr_threshold |-> F32(0, 127, 0),  \* 1.0
     suppressor__high_bands_suppression__max_gain_during_echo |-> F32(0, 127, 0),  \* 1.0
     suppressor__high_bands_suppression__anti_howling_activation_threshold |-> F32(0, 135, 4718592),  \* 400.0
     suppressor__high_bands_suppression__anti_howling_gain |-> F32(0, 127, 0),  \* 1.0
     suppressor__high_frequency_suppression__limiting_gain_band |-> 16,
     suppressor__high_frequency_suppression__bands_in_limiting_gain |-> 1,
     suppressor__floor_first_increase |-> F32(0, 110, 2606508),  \* 1e-05
     suppressor__conservative_hf_suppression |-> FALSE,
     multi_channel__detect_stereo_content |-> TRUE,
     multi_channel__stereo_detection_threshold |-> F32(0, 0, 0),  \* 0.0
     multi_channel__stereo_detection_timeout_threshold_seconds |-> 300,
     multi_channel__stereo_detection_hysteresis_seconds |-> F32(0, 128, 0)]  \* 2.0

UsizeFields ==
    {"buffering__excess_render_detection_interval_blocks",
     "buffering__max_allowed_excess_render_blocks",
     "delay__default_delay",
     "delay__down_sampling_factor",
     "delay__num_filters",
     "delay__delay_headroom_samples",
     "delay__hysteresis_limit_blocks",
     "delay__fixed_capture_delay_samples",
     "filter__refined__length_blocks",
     "filter__coarse__length_blocks",
     "filter__refined_initial__length_blocks",
     "filter__coarse_initial__length_blocks",
     "filter__config_change_duration_blocks",
     "erle__num_sections",
     "echo_model__noise_floor_hold",
     "echo_model__render_pre_window_size",
     "echo_model__render_post_window_size",
     "suppressor__nearend_average_blocks",
     "suppressor__subband_nearend_detection__nearend_average_blocks",
     "suppressor__subband_nearend_detection__subband1__low",
     "suppressor__subband_nearend_detection__subband1__high",
     "suppressor__subband_nearend_detection__subband2__low",
     "suppressor__subband_nearend_detection__subband2__high"}

I32Fields ==
    {"delay__delay_selection_thresholds__initial",
     "delay__delay_selection_thresholds__converged",
     "filter__coarse_reset_hangover_blocks",
     "suppressor__last_permanent_lf_smoothing_band",
     "suppressor__last_lf_smoothing_band",
     "suppressor__last_lf_band",
     "suppressor__first_hf_band",
     "suppressor__dominant_nearend_detection__hold_duration",
     "suppressor__dominant_nearend_detection__trigger_threshold",
     "suppressor__high_frequency_suppression__limiting_gain_band",
     "suppressor__high_frequency_suppression__bands_in_limiting_gain",
     "multi_channel__stereo_detection_timeout_threshold_seconds"}

F32Fields ==
    {"delay__delay_estimate_smoothing",
     "delay__delay_estimate_smoothing_delay_found",
     "delay__delay_candidate_detection_threshold",
     "delay__render_alignment_mixing__activity_power_threshold",
     "delay__capture_alignment_mixing__activity_power_threshold",
     "filter__refined__leakage_converged",
     "filter__refined__leakage_diverged",
     "filter__refined__error_floor",
     "filter__refined__error_ceil",
     "filter__refined__noise_gate",
     "filter__coarse__rate",
     "filter__coarse__noise_gate",
     "filter__refined_initial__leakage_converged",
     "filter__refined_initial__leakage_diverged",
     "filter__refined_initial__error_floor",
     "filter__refined_initial__error_ceil",
     "filter__refined_initial__noise_gate",
     "filter__coarse_initial__rate",
     "filter__coarse_initial__noise_gate",
     "filter__initial_state_seconds",
     "erle__min",
     "erle__max_l",
     "erle__max_h",
     "ep_strength__default_gain",
     "ep_strength__default_len",
     "ep_strength__nearend_len",
     "echo_audibility__low_render_limit",
     "echo_audibility__normal_render_limit",
     "echo_audibility__floor_power",
     "echo_audibility__audibility_threshold_lf",
     "echo_audibility__audibility_threshold_mf",
     "echo_audibility__audibility_threshold_hf",
     "render_levels__active_render_limit",
     "render_levels__poor_excitation_render_limit",
     "render_levels__poor_excitation_render_limit_ds8",
     "render_levels__render_power_gain_db",
     "echo_model__min_noise_floor_power",
     "echo_model__stationary_gate_slope",
     "echo_model__noise_gate_power",
     "echo_model__noise_gate_slope",
     "comfort_noise__noise_floor_dbfs",
     "suppressor__normal_tuning__mask_lf__enr_transparent",
     "suppressor__normal_tuning__mask_lf__enr_suppress",
     "suppressor__normal_tuning__mask_lf__emr_transparent",
     "suppressor__normal_tuning__mask_hf__enr_transparent",
     "suppressor__normal_tuning__mask_hf__enr_suppress",
     "suppressor__normal_tuning__mask_hf__emr_transparent",
     "suppressor__normal_tuning__max_inc_factor",
     "suppressor__normal_tuning__max_dec_factor_lf",
     "suppressor__nearend_tuning__mask_lf__enr_transparent",
     "suppressor__nearend_tuning__mask_lf__enr_suppress",
     "suppressor__nearend_tuning__mask_lf__emr_transparent",
     "suppressor__nearend_tuning__mask_hf__enr_transparent",
     "suppressor__nearend_tuning__mask_hf__enr_suppress",
     "suppressor__nearend_tuning__mask_hf__emr_transparent",
     "suppressor__nearend_tuning__max_inc_factor",
     "suppressor__nearend_tuning__max_dec_factor_lf",
     "suppressor__dominant_nearend_detection__enr_threshold",
     "suppressor__dominant_nearend_detection__enr_exit_threshold",
     "suppressor__dominant_nearend_detection__snr_threshold",
     "suppressor__subband_nearend_detection__nearend_threshold",
     "suppressor__subband_nearend_detection__snr_threshold",
     "suppressor__high_bands_suppression__enr_threshold",
     "suppressor__high_bands_suppression__max_gain_during_echo",
     "suppressor__high_bands_suppression__anti_howling_activation_threshold",
     "suppressor__high_bands_suppression__anti_howling_gain",
     "suppressor__floor_first_increase",
     "multi_channel__stereo_detection_threshold",
     "multi_channel__stereo_detection_hysteresis_seconds"}

\* limit_f32 without the replacement of non-finite results.
limit_f32_KeepNaN(value, min, max) ==
    LET c == f32_clamp(value, min, max)
    IN  [value |-> c.value, unchanged |-> F32Eq(value, c.value), panic |-> c.panic]

(***************************************************************************)
(* The limit helpers.  Each returns the new value, the "unchanged" flag    *)
(* and whether the call panicked.                                          *)
(***************************************************************************)
limit_f32(value, min, max) ==
    LET c == f32_clamp(value, min, max)
        clamped == IF is_finite(c.value) THEN c.value ELSE min
    IN  [value |-> clamped, unchanged |-> F32Eq(value, clamped), panic |-> c.panic]

limit_usize(value, min, max) ==
    LET c == int_clamp(value, min, max)
    IN  [value |-> c.value, unchanged |-> (value = c.value), panic |-> c.panic]

\* limit_i32 that reports "unchanged" whatever it did.
limit_i32_AlwaysUnchanged(value, min, max) ==
    LET c == int_clamp(value, min, max)
    IN  [value |-> c.value, unchanged |-> TRUE, panic |-> c.panic]

limit_i32(value, min, max) ==
    LET c == int_clamp(value, min, max)
    IN  [value |-> c.value, unchanged |-> (value = c.value), panic |-> c.panic]

\* floor_limit_usize that reports the violation but does not raise the value.
floor_limit_usize_NoFloor(value, min) ==
    [value |-> value, unchanged |-> ~(value < min), panic |-> FALSE]

floor_limit_usize(value, min) ==
    IF value < min
    THEN [value |-> min, unchanged |-> FALSE, panic |-> FALSE]
    ELSE [value |-> value, unchanged |-> TRUE, panic |-> FALSE]

(***************************************************************************)
(* Bounds of a limit call: a literal, another field of the config, or an   *)
(* i32 expression over another field (which may overflow).                 *)
(***************************************************************************)
NoBound == [k |-> "none"]
Const(v) == [k |-> "const", v |-> v]
FieldBound(f) == [k |-> "field", f |-> f]
FieldPlus(f, n) == [k |-> "field_plus", f |-> f, n |-> n]
ConstMinus(n, f) == [k |-> "const_minus", f |-> f, n |-> n]

\* Value of a bound in config c, with the overflow flag of its computation.
BoundValue(c, b) ==
    CASE b.k = "const" -> [v |-> b.v, overflow |-> FALSE]
      [] b.k = "field" -> [v |-> c[b.f], overflow |-> FALSE]
      [] b.k = "field_plus" ->
            IF c[b.f] > I32Max - b.n
            THEN [v |-> I32Min + (b.n - 1), overflow |-> TRUE]
            ELSE [v |-> c[b.f] + b.n, overflow |-> FALSE]
      [] b.k = "const_minus" ->
            IF c[b.f] < b.n - I32Max
            THEN [v |-> I32Min, overflow |-> TRUE]
            ELSE [v |-> b.n - c[b.f], overflow |-> FALSE]
      [] OTHER -> [v |-> 0, overflow |-> FALSE]

Field(t, name) == t \o "__" \o name

\* validate_tuning: the eight limit_f32 calls on one Tuning.
validate_tuning(t) ==
    <<
       [op |-> "limit_f32", f |-> Field(t, "mask_lf__enr_transparent"), lo |-> Const(F32(0, 0, 0)), hi |-> Const(F32(0, 133, 4718592))],  \* [0.0, 100.0]
       [op |-> "limit_f32", f |-> Field(t, "mask_lf__enr_suppress"), lo |-> Const(F32(0, 0, 0)), hi |-> Const(F32(0, 133, 4718592))],  \* [0.0, 100.0]
       [op |-> "limit_f32", f |-> Field(t, "mask_lf__emr_transparent"), lo |-> Const(F32(0, 0, 0)), hi |-> Const(F32(0, 133, 4718592))],  \* [0.0, 100.0]
       [op |-> "limit_f32", f |-> Field(t, "mask_hf__enr_transparent"), lo |-> Const(F32(0, 0, 0)), hi |-> Const(F32(0, 133, 4718592))],  \* [0.0, 100.0]
       [op |-> "limit_f32", f |-> Field(t, "mask_hf__enr_suppress"), lo |-> Const(F32(0, 0, 0)), hi |-> Const(F32(0, 133, 4718592))],  \* [0.0, 100.0]
       [op |-> "limit_f32", f |-> Field(t, "mask_hf__emr_transparent"), lo |-> Const(F32(0, 0, 0)), hi |-> Const(F32(0, 133, 4718592))],  \* [0.0, 100.0]
       [op |-> "limit_f32", f |-> Field(t, "max_inc_factor"), lo |-> Const(F32(0, 0, 0)), hi |-> Const(F32(0, 133, 4718592))],  \* [0.0, 100.0]
       [op |-> "limit_f32", f |-> Field(t, "max_dec_factor_lf"), lo |-> Const(F32(0, 0, 0)), hi |-> Const(F32(0, 133, 4718592))]  \* [0.0, 100.0]
    >>

\* The statements of validate before the two validate_tuning calls.
ValidateStepsHead ==
    <<
       [op |-> "down_sampling_factor", f |-> "delay__down_sampling_factor", lo |-> NoBound, hi |-> NoBound],
       [op |-> "limit_usize", f |-> "delay__default_delay", lo |-> Const(0), hi |-> Const(5000)],
       [op |-> "limit_usize", f |-> "delay__num_filters", lo |-> Const(0), hi |-> Const(5000)],
       [op |-> "limit_usize", f |-> "delay__delay_headroom_samples", lo |-> Const(0), hi |-> Const(5000)],
       [op |-> "limit_usize", f |-> "delay__hysteresis_limit_blocks", lo |-> Const(0), hi |-> Const(5000)],
       [op |-> "limit_usize", f |-> "delay__fixed_capture_delay_samples", lo |-> Const(0), hi |-> Const(5000)],
       [op |-> "limit_f32", f |-> "delay__delay_estimate_smoothing", lo |-> Const(F32(0, 0, 0)), hi |-> Const(F32(0, 127, 0))],  \* [0.0, 1.0]
       [op |-> "limit_f32", f |-> "delay__delay_candidate_detection_threshold", lo |-> Const(F32(0, 0, 0)), hi |-> Const(F32(0, 127, 0))],  \* [0.0, 1.0]
       [op |-> "limit_i32", f |-> "delay__delay_selection_thresholds__initial", lo |-> Const(1), hi |-> Const(250)],
       [op |-> "limit_i32", f |-> "delay__delay_selection_thresholds__converged", lo |-> Const(1), hi |-> Const(250)],
       [op |-> "floor_limit_usize", f |-> "filter__refined__length_blocks", lo |-> Const(1), hi |-> NoBound],
       [op |-> "limit_f32", f |-> "filter__refined__leakage_converged", lo |-> Const(F32(0, 0, 0)), hi |-> Const(F32(0, 136, 7995392))],  \* [0.0, 1000.0]
       [op |-> "limit_f32", f |-> "filter__refined__leakage_diverged", lo |-> Const(F32(0, 0, 0)), hi |-> Const(F32(0, 136, 7995392))],  \* [0.0, 1000.0]
       [op |-> "limit_f32", f |-> "filter__refined__error_floor", lo |-> Const(F32(0, 0, 0)), hi |-> Const(F32(0, 136, 7995392))],  \* [0.0, 1000.0]
       [op |-> "limit_f32", f |-> "filter__refined__error_ceil", lo |-> Const(F32(0, 0, 0)), hi |-> Const(F32(0, 153, 4111392))],  \* [0.0, 100000000.0]
       [op |-> "limit_f32", f |-> "filter__refined__noise_gate", lo |-> Const(F32(0, 0, 0)), hi |-> Const(F32(0, 153, 4111392))],  \* [0.0, 100000000.0]
       [op |-> "floor_limit_usize", f |-> "filter__refined_initial__length_blocks", lo |-> Const(1), hi |-> NoBound],
       [op |-> "limit_f32", f |-> "filter__refined_initial__leakage_converged", lo |-> Const(F32(0, 0, 0)), hi |-> Const(F32(0, 136, 7995392))],  \* [0.0, 1000.0]
       [op |-> "limit_f32", f |-> "filter__refined_initial__leakage_diverged", lo |-> Const(F32(0, 0, 0)), hi |-> Const(F32(0, 136, 7995392))],  \* [0.0, 1000.0]
       [op |-> "limit_f32", f |-> "filter__refined_initial__error_floor", lo |-> Const(F32(0, 0, 0)), hi |-> Const(F32(0, 136, 7995392))],  \* [0.0, 1000.0]
       [op |-> "limit_f32", f |-> "filter__refined_initial__error_ceil", lo |-> Const(F32(0, 0, 0)), hi |-> Const(F32(0, 153, 4111392))],  \* [0.0, 100000000.0]
       [op |-> "limit_f32", f |-> "filter__refined_initial__noise_gate", lo |-> Const(F32(0, 0, 0)), hi |-> Const(F32(0, 153, 4111392))],  \* [0.0, 100000000.0]
       [op |-> "cap_length", f |-> "filter__refined_initial__length_blocks", lo |-> NoBound, hi |-> FieldBound("filter__refined__length_blocks")],
       [op |-> "floor_limit_usize", f |-> "filter__coarse__length_blocks", lo |-> Const(1), hi |-> NoBound],
       [op |-> "limit_f32", f |-> "filter__coarse__rate", lo |-> Const(F32(0, 0, 0)), hi |-> Const(F32(0, 127, 0))],  \* [0.0, 1.0]
       [op |-> "limit_f32", f |-> "filter__coarse__noise_gate", lo |-> Const(F32(0, 0, 0)), hi |-> Const(F32(0, 153, 4111392))],  \* [0.0, 100000000.0]
       [op |-> "floor_limit_usize", f |-> "filter__coarse_initial__length_blocks", lo |-> Const(1), hi |-> NoBound],
       [op |-> "limit_f32", f |-> "filter__coarse_initial__rate", lo |-> Const(F32(0, 0, 0)), hi |-> Const(F32(0, 127, 0))],  \* [0.0, 1.0]
       [op |-> "limit_f32", f |-> "filter__coarse_initial__noise_gate", lo |-> Const(F32(0, 0, 0)), hi |-> Const(F32(0, 153, 4111392))],  \* [0.0, 100000000.0]
       [op |-> "cap_length", f |-> "filter__coarse_initial__length_blocks", lo |-> NoBound, hi |-> FieldBound("filter__coarse__length_blocks")],
       [op |-> "limit_usize", f |-> "filter__config_change_duration_blocks", lo |-> Const(0), hi |-> Const(100000)],
       [op |-> "limit_f32", f |-> "filter__initial_state_seconds", lo |-> Const(F32(0, 0, 0)), hi |-> Const(F32(0, 133, 4718592))],  \* [0.0, 100.0]
       [op |-> "limit_i32", f |-> "filter__coarse_reset_hangover_blocks", lo |-> Const(0), hi |-> Const(250000)],
       [op |-> "limit_f32", f |-> "erle__min", lo |-> Const(F32(0, 127, 0)), hi |-> Const(F32(0, 143, 4411392))],  \* [1.0, 100000.0]
       [op |-> "limit_f32", f |-> "erle__max_l", lo |-> Const(F32(0, 127, 0)), hi |-> Const(F32(0, 143, 4411392))],  \* [1.0, 100000.0]
       [op |-> "limit_f32", f |-> "erle__max_h", lo |-> Const(F32(0, 127, 0)), hi |-> Const(F32(0, 143, 4411392))],  \* [1.0, 100000.0]
       [op |-> "cap_erle_min", f |-> "erle__min", lo |-> NoBound, hi |-> NoBound],
       [op |-> "limit_usize", f |-> "erle__num_sections", lo |-> Const(1), hi |-> FieldBound("filter__refined__length_blocks")],
       [op |-> "limit_f32", f |-> "ep_strength__default_gain", lo |-> Const(F32(0, 0, 0)), hi |-> Const(F32(0, 146, 7611392))],  \* [0.0, 1000000.0]
       [op |-> "limit_f32", f |-> "ep_strength__default_len", lo |-> Const(F32(1, 127, 0)), hi |-> Const(F32(0, 127, 0))],  \* [-1.0, 1.0]
       [op |-> "limit_f32", f |-> "ep_strength__nearend_len", lo |-> Const(F32(1, 127, 0)), hi |-> Const(F32(0, 127, 0))],  \* [-1.0, 1.0]
       [op |-> "limit_f32", f |-> "echo_audibility__low_render_limit", lo |-> Const(F32(0, 0, 0)), hi |-> Const(F32(0, 157, 0))],  \* [0.0, 1073741824.0]
       [op |-> "limit_f32", f |-> "echo_audibility__normal_render_limit", lo |-> Const(F32(0, 0, 0)), hi |-> Const(F32(0, 157, 0))],  \* [0.0, 1073741824.0]
       [op |-> "limit_f32", f |-> "echo_audibility__floor_power", lo |-> Const(F32(0, 0, 0)), hi |-> Const(F32(0, 157, 0))],  \* [0.0, 1073741824.0]
       [op |-> "limit_f32", f |-> "echo_audibility__audibility_threshold_lf", lo |-> Const(F32(0, 0, 0)), hi |-> Const(F32(0, 157, 0))],  \* [0.0, 1073741824.0]
       [op |-> "limit_f32", f |-> "echo_audibility__audibility_threshold_mf", lo |-> Const(F32(0, 0, 0)), hi |-> Const(F32(0, 157, 0))],  \* [0.0, 1073741824.0]
       [op |-> "limit_f32", f |-> "echo_audibility__audibility_threshold_hf", lo |-> Const(F32(0, 0, 0)), hi |-> Const(F32(0, 157, 0))],  \* [0.0, 1073741824.0]
       [op |-> "limit_f32", f |-> "render_levels__active_render_limit", lo |-> Const(F32(0, 0, 0)), hi |-> Const(F32(0, 157, 0))],  \* [0.0, 1073741824.0]
       [op |-> "limit_f32", f |-> "render_levels__poor_excitation_render_limit", lo |-> Const(F32(0, 0, 0)), hi |-> Const(F32(0, 157, 0))],  \* [0.0, 1073741824.0]
       [op |-> "limit_f32", f |-> "render_levels__poor_excitation_render_limit_ds8", lo |-> Const(F32(0, 0, 0)), hi |-> Const(F32(0, 157, 0))],  \* [0.0, 1073741824.0]
       [op |-> "limit_usize", f |-> "echo_model__noise_floor_hold", lo |-> Const(0), hi |-> Const(1000)],
       [op |-> "limit_f32", f |-> "echo_model__min_noise_floor_power", lo |-> Const(F32(0, 0, 0)), hi |-> Const(F32(0, 147, 7611392))],  \* [0.0, 2000000.0]
       [op |-> "limit_f32", f |-> "echo_model__stationary_gate_slope", lo |-> Const(F32(0, 0, 0)), hi |-> Const(F32(0, 146, 7611392))],  \* [0.0, 1000000.0]
       [op |-> "limit_f32", f |-> "echo_model__noise_gate_power", lo |-> Const(F32(0, 0, 0)), hi |-> Const(F32(0, 146, 7611392))],  \* [0.0, 1000000.0]
       [op |-> "limit_f32", f |-> "echo_model__noise_gate_slope", lo |-> Const(F32(0, 0, 0)), hi |-> Const(F32(0, 146, 7611392))],  \* [0.0, 1000000.0]
       [op |-> "limit_usize", f |-> "echo_model__render_pre_window_size", lo |-> Const(0), hi |-> Const(100)],
       [op |-> "limit_usize", f |-> "echo_model__render_post_window_size", lo |-> Const(0), hi |-> Const(100)],
       [op |-> "limit_f32", f |-> "comfort_noise__noise_floor_dbfs", lo |-> Const(F32(1, 134, 4718592)), hi |-> Const(F32(0, 0, 0))],  \* [-200.0, 0.0]
       [op |-> "limit_usize", f |-> "suppressor__nearend_average_blocks", lo |-> Const(1), hi |-> Const(5000)]
    >>

\* The statements of validate after the two validate_tuning calls.
ValidateStepsTail ==
    <<
       [op |-> "limit_i32", f |-> "suppressor__last_permanent_lf_smoothing_band", lo |-> Const(0), hi |-> Const(64)],
       [op |-> "limit_i32", f |-> "suppressor__last_lf_smoothing_band", lo |-> Const(0), hi |-> Const(64)],
       [op |-> "limit_i32", f |-> "suppressor__last_lf_band", lo |-> Const(0), hi |-> Const(63)],
       [op |-> "limit_i32", f |-> "suppressor__first_hf_band", lo |-> FieldPlus("suppressor__last_lf_band", 1), hi |-> Const(64)],
       [op |-> "limit_f32", f |-> "suppressor__dominant_nearend_detection__enr_threshold", lo |-> Const(F32(0, 0, 0)), hi |-> Const(F32(0, 146, 7611392))],  \* [0.0, 1000000.0]
       [op |-> "limit_f32", f |-> "suppressor__dominant_nearend_detection__snr_threshold", lo |-> Const(F32(0, 0, 0)), hi |-> Const(F32(0, 146, 7611392))],  \* [0.0, 1000000.0]
       [op |-> "limit_i32", f |-> "suppressor__dominant_nearend_detection__hold_duration", lo |-> Const(0), hi |-> Const(10000)],
       [op |-> "limit_i32", f |-> "suppressor__dominant_nearend_detection__trigger_threshold", lo |-> Const(0), hi |-> Const(10000)],
       [op |-> "limit_usize", f |-> "suppressor__subband_nearend_detection__nearend_average_blocks", lo |-> Const(1), hi |-> Const(1024)],
       [op |-> "limit_usize", f |-> "suppressor__subband_nearend_detection__subband1__low", lo |-> Const(0), hi |-> Const(65)],
       [op |-> "limit_usize", f |-> "suppressor__subband_nearend_detection__subband1__high", lo |-> FieldBound("suppressor__subband_nearend_detection__subband1__low"), hi |-> Const(65)],
       [op |-> "limit_usize", f |-> "suppressor__subband_nearend_detection__subband2__low", lo |-> Const(0), hi |-> Const(65)],
       [op |-> "limit_usize", f |-> "suppressor__subband_nearend_detection__subband2__high", lo |-> FieldBound("suppressor__subband_nearend_detection__subband2__low"), hi |-> Const(65)],
       [op |-> "limit_f32", f |-> "suppressor__subband_nearend_detection__nearend_threshold", lo |-> Const(F32(0, 0, 0)), hi |-> Const(F32(0, 206, 5489180))],  \* [0.0, 1e+24]
       [op |-> "limit_f32", f |-> "suppressor__subband_nearend_detection__snr_threshold", lo |-> Const(F32(0, 0, 0)), hi |-> Const(F32(0, 206, 5489180))],  \* [0.0, 1e+24]
       [op |-> "limit_f32", f |-> "suppressor__high_bands_suppression__enr_threshold", lo |-> Const(F32(0, 0, 0)), hi |-> Const(F32(0, 146, 7611392))],  \* [0.0, 1000000.0]
       [op |-> "limit_f32", f |-> "suppressor__high_bands_suppression__max_gain_during_echo", lo |-> Const(F32(0, 0, 0)), hi |-> Const(F32(0, 127, 0))],  \* [0.0, 1.0]
       [op |-> "limit_f32", f |-> "suppressor__high_bands_suppression__anti_howling_activation_threshold", lo |-> Const(F32(0, 0, 0)), hi |-> Const(F32(0, 157, 0))],  \* [0.0, 1073741824.0]
       [op |-> "limit_f32", f |-> "suppressor__high_bands_suppression__anti_howling_gain", lo |-> Const(F32(0, 0, 0)), hi |-> Const(F32(0, 127, 0))],  \* [0.0, 1.0]
       [op |-> "limit_i32", f |-> "suppressor__high_frequency_suppression__limiting_gain_band", lo |-> Const(1), hi |-> Const(64)],
       [op |-> "limit_i32", f |-> "suppressor__high_frequency_suppression__bands_in_limiting_gain", lo |-> Const(0), hi |-> ConstMinus(64, "suppressor__high_frequency_suppression__limiting_gain_band")],
       [op |-> "limit_f32", f |-> "suppressor__floor_first_increase", lo |-> Const(F32(0, 0, 0)), hi |-> Const(F32(0, 146, 7611392))]  \* [0.0, 1000000.0]
    >>

\* The statements of validate, in program order.
ValidateSteps ==
    ValidateStepsHead
    \o validate_tuning("suppressor__normal_tuning")
    \o validate_tuning("suppressor__nearend_tuning")
    \o ValidateStepsTail

\* reset_down_sampling_factor that resets to 8 instead of 4.
reset_down_sampling_factor_To8(st) ==
    LET f == "delay__down_sampling_factor"
    IN  IF st.c[f] # 4 /\ st.c[f] # 8
        THEN [st EXCEPT !.c = [st.c EXCEPT ![f] = 8], !.ok = FALSE]
        ELSE st

\* if down_sampling_factor != 4 && != 8 { down_sampling_factor = 4; ok = false }
reset_down_sampling_factor(st) ==
    LET f == "delay__down_sampling_factor"
    IN  IF st.c[f] # 4 /\ st.c[f] # 8
        THEN [st EXCEPT !.c = [st.c EXCEPT ![f] = 4], !.ok = FALSE]
        ELSE st

\* cap_length that flags the violation but leaves the initial length as it is.
cap_length_NoCap(st, initial, full) ==
    IF st.c[full] < st.c[initial] THEN [st EXCEPT !.ok = FALSE] ELSE st

\* if full.length_blocks < initial.length_blocks { initial = full; ok = false }
cap_length(st, initial, full) ==
    IF st.c[full] < st.c[initial]
    THEN [st EXCEPT !.c = [st.c EXCEPT ![initial] = st.c[full]], !.ok = FALSE]
    ELSE st

\* cap_erle_min that caps to max_l instead of min(max_l, max_h).
cap_erle_min_MaxLOnly(st) ==
    IF F32Gt(st.c["erle__min"], st.c["erle__max_l"])
       \/ F32Gt(st.c["erle__min"], st.c["erle__max_h"])
    THEN [st EXCEPT !.c = [st.c EXCEPT !["erle__min"] = st.c["erle__max_l"]],
                    !.ok = FALSE]
    ELSE st

\* if erle.min > max_l || erle.min > max_h { erle.min = max_l.min(max_h); ok = false }
cap_erle_min(st) ==
    IF F32Gt(st.c["erle__min"], st.c["erle__max_l"])
       \/ F32Gt(st.c["erle__min"], st.c["erle__max_h"])
    THEN [st EXCEPT !.c = [st.c EXCEPT !["erle__min"] =
                             f32_min(st.c["erle__max_l"], st.c["erle__max_h"])],
                    !.ok = FALSE]
    ELSE st

\* One statement of validate applied to st = [c, ok, panic, overflow].
ApplyStep(st, s) ==
    IF st.panic THEN st
    ELSE
    CASE s.op = "down_sampling_factor" -> reset_down_sampling_factor(st)
      [] s.op = "cap_length" -> cap_length(st, s.f, s.hi.f)
      [] s.op = "cap_erle_min" -> cap_erle_min(st)
      [] s.op = "floor_limit_usize" ->
            LET r == floor_limit_usize(st.c[s.f], s.lo.v)
            IN  [st EXCEPT !.c = [st.c EXCEPT ![s.f] = r.value],
                           !.ok = st.ok /\ r.unchanged]
      [] OTHER ->
            LET lo == BoundValue(st.c, s.lo)
                hi == BoundValue(st.c, s.hi)
                r == CASE s.op = "limit_f32" -> limit_f32(st.c[s.f], lo.v, hi.v)
                       [] s.op = "limit_i32" -> limit_i32(st.c[s.f], lo.v, hi.v)
                       [] OTHER -> limit_usize(st.c[s.f], lo.v, hi.v)
            IN  [c |-> [st.c EXCEPT ![s.f] = r.value],
                 ok |-> st.ok /\ r.unchanged,
                 panic |-> r.panic,
                 overflow |-> st.overflow \/ lo.overflow \/ hi.overflow]

RECURSIVE RunSteps(_, _, _, _)
\* Runs the statements steps[lo..hi] in order from st.  The state reached
\* after the first half is bound as a value before the second half reads it.
RunSteps(st, steps, lo, hi) ==
    IF lo > hi THEN st
    ELSE IF lo = hi THEN ApplyStep(st, steps[lo])
    ELSE LET mid == (lo + hi) \div 2
         IN  CHOOSE r \in {RunSteps(m, steps, mid + 1, hi) :
                              m \in {RunSteps(st, steps, lo, mid)}} : TRUE

\* EchoCanceller3Config::validate.
validate(c) ==
    RunSteps([c |-> c, ok |-> TRUE, panic |-> FALSE, overflow |-> FALSE],
             ValidateSteps, 1, Len(ValidateSteps))

(***************************************************************************)
(* TransparentMode::create and the detectors' constructors.                *)
(***************************************************************************)
BLOCKS_SINCE_CONVERGED_FILTER_INIT == 10000
BLOCKS_SINCE_CONSISTENT_ESTIMATE_INIT == 10000
\* 0.2f32
INITIAL_TRANSPARENT_STATE_PROBABILITY == F32(0, 124, 5033165)

LegacyTransparentMode_new(config) ==
    [kind |-> "Legacy",
     linear_and_stable_echo_path |->
         config["echo_removal_control__linear_and_stable_echo_path"],
     capture_block_counter |-> 0,
     transparency_activated |-> FALSE,
     active_blocks_since_sane_filter |-> BLOCKS_SINCE_CONSISTENT_ESTIMATE_INIT,
     sane_filter_observed |-> FALSE,
     finite_erl_recently_detected |-> FALSE,
     non_converged_sequence_size |-> BLOCKS_SINCE_CONVERGED_FILTER_INIT,
     diverged_sequence_size |-> 0,
     active_non_converged_sequence_size |-> 0,
     num_converged_blocks |-> 0,
     recent_convergence_during_activity |-> FALSE,
     strong_not_saturated_render_blocks |-> 0]

HmmTransparentMode_new ==
    [kind |-> "Hmm",
     transparency_activated |-> FALSE,
     prob_transparent_state |-> INITIAL_TRANSPARENT_STATE_PROBABILITY]

\* Option::None
NoDetector == [kind |-> "None"]
\* create has not been called yet
NotCreated == [kind |-> "NotCreated"]

\* create that looks at the requested variant before bounded_erl.
TransparentMode_create_VariantFirst(config) ==
    IF config["echo_removal_control__transparent_mode"] = "Hmm"
    THEN HmmTransparentMode_new
    ELSE IF config["ep_strength__bounded_erl"]
         THEN NoDetector
         ELSE LegacyTransparentMode_new(config)

TransparentMode_create(config) ==
    IF config["ep_strength__bounded_erl"]
    THEN NoDetector
    ELSE IF config["echo_removal_control__transparent_mode"] = "Legacy"
         THEN LegacyTransparentMode_new(config)
         ELSE HmmTransparentMode_new

\* TransparentMode::active on an existing detector.
active(t) == t.transparency_activated

(***************************************************************************)
(* HmmTransparentMode::update.                                             *)
(***************************************************************************)
\* 0.000001f32
SWITCH == F32(0, 107, 407485)
\* 0.01f32
CONVERGED_NORMAL == F32(0, 120, 2348810)
\* 0.001f32
CONVERGED_TRANSPARENT == F32(0, 117, 201327)

\* Transition matrix [P(switch), P(stay)] with the switch and stay entries
\* exchanged.
A_Swapped == << f32_sub(F32One, SWITCH), SWITCH >>

\* Transition matrix: [P(switch), P(stay)]  (A[0], A[1] in the source).
A == << SWITCH, f32_sub(F32One, SWITCH) >>

\* Observation matrix with the rows of the two states exchanged.
B_RowsSwapped ==
    << << f32_sub(F32One, CONVERGED_TRANSPARENT), CONVERGED_TRANSPARENT >>,
       << f32_sub(F32One, CONVERGED_NORMAL), CONVERGED_NORMAL >> >>

\* Observation matrix B[state][observation]  (indices are 1 + the source's).
B ==
    << << f32_sub(F32One, CONVERGED_NORMAL), CONVERGED_NORMAL >>,
       << f32_sub(F32One, CONVERGED_TRANSPARENT), CONVERGED_TRANSPARENT >> >>

\* An activation threshold equal to the deactivation threshold 0.5.
ACTIVATE_ABOVE_Half == F32(0, 126, 0)

\* 0.95f32 and 0.5f32, the hysteresis thresholds
ACTIVATE_ABOVE == F32(0, 126, 7549747)
DEACTIVATE_BELOW == F32(0, 126, 0)

\* update without the early return for inactive render.
HmmTransparentMode_update_NoRenderGate(t, any_coarse_filter_converged, active_render) ==
    LET prob_transparent == t.prob_transparent_state
        prob_normal == f32_sub(F32One, prob_transparent)
        \* Predict step: apply transition model.
        prob_transition_transparent ==
            f32_add(f32_mul(prob_normal, A[1]), f32_mul(prob_transparent, A[2]))
        prob_transition_normal == f32_sub(F32One, prob_transition_transparent)
        \* Observation index: 1 if filter converged, 0 otherwise (plus one).
        obs == IF any_coarse_filter_converged THEN 2 ELSE 1
        \* Update step: Bayes' theorem.
        prob_joint_normal == f32_mul(prob_transition_normal, B[1][obs])
        prob_joint_transparent == f32_mul(prob_transition_transparent, B[2][obs])
        new_prob == f32_div(prob_joint_transparent,
                            f32_add(prob_joint_normal, prob_joint_transparent))
    IN  CHOOSE r \in
            {[t EXCEPT !.prob_transparent_state = p,
                       !.transparency_activated =
                           IF F32Gt(p, ACTIVATE_ABOVE) THEN TRUE
                           ELSE IF F32Lt(p, DEACTIVATE_BELOW) THEN FALSE
                           ELSE @]
             : p \in {new_prob}} : TRUE

HmmTransparentMode_update(t, any_coarse_filter_converged, active_render) ==
    IF ~active_render THEN t
    ELSE
    LET prob_transparent == t.prob_transparent_state
        prob_normal == f32_sub(F32One, prob_transparent)
        \* Predict step: apply transition model.
        prob_transition_transparent ==
            f32_add(f32_mul(prob_normal, A[1]), f32_mul(prob_transparent, A[2]))
        prob_transition_normal == f32_sub(F32One, prob_transition_transparent)
        \* Observation index: 1 if filter converged, 0 otherwise (plus one).
        obs == IF any_coarse_filter_converged THEN 2 ELSE 1
        \* Update step: Bayes' theorem.
        prob_joint_normal == f32_mul(prob_transition_normal, B[1][obs])
        prob_joint_transparent == f32_mul(prob_transition_transparent, B[2][obs])
        new_prob == f32_div(prob_joint_transparent,
                            f32_add(prob_joint_normal, prob_joint_transparent))
    IN  CHOOSE r \in
            {[t EXCEPT !.prob_transparent_state = p,
                       !.transparency_activated =
                           IF F32Gt(p, ACTIVATE_ABOVE) THEN TRUE
                           ELSE IF F32Lt(p, DEACTIVATE_BELOW) THEN FALSE
                           ELSE @]
             : p \in {new_prob}} : TRUE

\* reset that clears the activation flag only.
HmmTransparentMode_reset_FlagOnly(t) ==
    [t EXCEPT !.transparency_activated = FALSE]

HmmTransparentMode_reset(t) ==
    [t EXCEPT !.transparency_activated = FALSE,
              !.prob_transparent_state = INITIAL_TRANSPARENT_STATE_PROBABILITY]

(***************************************************************************)
(* LegacyTransparentMode::update.                                          *)
(***************************************************************************)
\* common::NUM_BLOCKS_PER_SECOND: blocks of 4 ms.
NUM_BLOCKS_PER_SECOND == 250

\* The activation test with the 60 s of the other thresholds.
filter_should_have_converged_SixtySeconds(strong_not_saturated_render_blocks) ==
    strong_not_saturated_render_blocks > 60 * NUM_BLOCKS_PER_SECOND

filter_should_have_converged(strong_not_saturated_render_blocks) ==
    strong_not_saturated_render_blocks > 6 * NUM_BLOCKS_PER_SECOND

\* The decision with && in place of ||.
transparency_decision_And(finite_erl_recently_detected, sane_filter_recently_seen, recent_convergence_during_activity, strong) ==
    IF finite_erl_recently_detected
       /\ (sane_filter_recently_seen /\ recent_convergence_during_activity)
    THEN FALSE
    ELSE filter_should_have_converged(strong)

\* The final if / else of update: the new transparency_activated.
transparency_decision(finite_erl_recently_detected, sane_filter_recently_seen, recent_convergence_during_activity, strong) ==
    IF finite_erl_recently_detected
       \/ (sane_filter_recently_seen /\ recent_convergence_during_activity)
    THEN FALSE
    ELSE filter_should_have_converged(strong)

\* Each field after update, in the order update assigns them.
LegacyTransparentMode_update(t, state) ==
    LET capture_block_counter == t.capture_block_counter + 1
        strong_not_saturated_render_blocks ==
            t.strong_not_saturated_render_blocks
              + (IF state.active_render /\ ~state.saturated_capture THEN 1 ELSE 0)
        sane == state.any_filter_consistent /\ state.filter_delay_blocks < 5
        sane_filter_observed == sane \/ t.sane_filter_observed
        active_blocks_since_sane_filter ==
            IF sane THEN 0
            ELSE IF state.active_render THEN t.active_blocks_since_sane_filter + 1
            ELSE t.active_blocks_since_sane_filter
        sane_filter_recently_seen ==
            IF ~sane_filter_observed
            THEN capture_block_counter <= 5 * NUM_BLOCKS_PER_SECOND
            ELSE active_blocks_since_sane_filter <= 30 * NUM_BLOCKS_PER_SECOND
        active_non_converged_sequence_size ==
            IF state.any_filter_converged THEN 0
            ELSE IF state.active_render
                 THEN t.active_non_converged_sequence_size + 1
                 ELSE t.active_non_converged_sequence_size
        recent_convergence_during_activity ==
            IF state.any_filter_converged THEN TRUE
            ELSE IF state.active_render
                    /\ active_non_converged_sequence_size > 60 * NUM_BLOCKS_PER_SECOND
                 THEN FALSE
                 ELSE t.recent_convergence_during_activity
        num_converged_blocks ==
            IF state.any_filter_converged THEN t.num_converged_blocks + 1
            ELSE IF t.non_converged_sequence_size + 1 > 20 * NUM_BLOCKS_PER_SECOND
                 THEN 0
                 ELSE t.num_converged_blocks
        diverged_sequence_size ==
            IF ~state.all_filters_diverged THEN 0
            ELSE t.diverged_sequence_size + 1
        non_converged_sequence_size ==
            IF state.all_filters_diverged /\ diverged_sequence_size >= 60
            THEN BLOCKS_SINCE_CONVERGED_FILTER_INIT
            ELSE IF state.any_filter_converged THEN 0
                 ELSE t.non_converged_sequence_size + 1
        finite_erl_recently_detected ==
            IF num_converged_blocks > 50 THEN TRUE
            ELSE IF active_non_converged_sequence_size > 60 * NUM_BLOCKS_PER_SECOND
                 THEN FALSE
                 ELSE t.finite_erl_recently_detected
    IN  [kind |-> "Legacy",
         linear_and_stable_echo_path |-> t.linear_and_stable_echo_path,
         capture_block_counter |-> capture_block_counter,
         transparency_activated |->
             transparency_decision(finite_erl_recently_detected,
                                   sane_filter_recently_seen,
                                   recent_convergence_during_activity,
                                   strong_not_saturated_render_blocks),
         active_blocks_since_sane_filter |-> active_blocks_since_sane_filter,
         sane_filter_observed |-> sane_filter_observed,
         finite_erl_recently_detected |-> finite_erl_recently_detected,
         non_converged_sequence_size |-> non_converged_sequence_size,
         diverged_sequence_size |-> diverged_sequence_size,
         active_non_converged_sequence_size |-> active_non_converged_sequence_size,
         num_converged_blocks |-> num_converged_blocks,
         recent_convergence_during_activity |-> recent_convergence_during_activity,
         strong_not_saturated_render_blocks |-> strong_not_saturated_render_blocks]

\* reset that also clears transparency_activated.
LegacyTransparentMode_reset_Deactivates(t) ==
    [t EXCEPT !.non_converged_sequence_size = BLOCKS_SINCE_CONVERGED_FILTER_INIT,
              !.diverged_sequence_size = 0,
              !.strong_not_saturated_render_blocks = 0,
              !.transparency_activated = FALSE,
              !.recent_convergence_during_activity =
                  IF t.linear_and_stable_echo_path THEN FALSE ELSE @]

LegacyTransparentMode_reset(t) ==
    [t EXCEPT !.non_converged_sequence_size = BLOCKS_SINCE_CONVERGED_FILTER_INIT,
              !.diverged_sequence_size = 0,
              !.strong_not_saturated_render_blocks = 0,
              !.recent_convergence_during_activity =
                  IF t.linear_and_stable_echo_path THEN FALSE ELSE @]

(***************************************************************************)
(* SubbandErleEstimator.  Arrays over the bins are functions on 0..64 and  *)
(* vectors over the capture channels functions on 0..n-1.                  *)
(***************************************************************************)
\* common::FFT_LENGTH_BY_2, FFT_LENGTH_BY_2_PLUS_1: a spectrum has 65 bins.
FFT_LENGTH_BY_2 == 64
FFT_LENGTH_BY_2_PLUS_1 == 65
\* common::BLOCKS_TO_HOLD_ERLE
BLOCKS_TO_HOLD_ERLE == 100
\* common::X2_BAND_ENERGY_THRESHOLD: 44015068.0f32
X2_BAND_ENERGY_THRESHOLD == F32(0, 152, 2615159)

BLOCKS_FOR_ONSET_DETECTION == BLOCKS_TO_HOLD_ERLE + 150
POINTS_TO_ACCUMULATE == 6
\* 100000.0f32
UNBOUNDED_ERLE_MAX == F32(0, 143, 4411392)

Bins == 0 .. FFT_LENGTH_BY_2_PLUS_1 - 1
\* The bins update_bands and decrease_erle_per_band_for_low_render_signals
\* loop over: 1..FFT_LENGTH_BY_2 (exclusive).
InnerBins == 1 .. FFT_LENGTH_BY_2 - 1

\* The value v, computed once, in the expression In.
Let(v, In(_)) == CHOOSE r \in {In(x) : x \in {v}} : TRUE

\* The array f with every element computed.
Eager(f) == f @@ << >>

\* The array [k \in Bins |-> F(Key(k))], F being computed once for each
\* distinct key.
MapBins(Key(_), F(_)) ==
    Let(Eager([k \in Bins |-> Key(k)]), LAMBDA keys :
    Let(Eager([x \in {keys[k] : k \in Bins} |-> F(x)]), LAMBDA T :
    Eager([k \in Bins |-> T[keys[k]]])))

Filled(v) == Eager([k \in Bins |-> v])

\* max_erle with the two arguments exchanged.
set_max_erle_bands_Swapped(max_erle_l, max_erle_h) ==
    [k \in Bins |-> IF k < FFT_LENGTH_BY_2 \div 2 THEN max_erle_h ELSE max_erle_l]

set_max_erle_bands(max_erle_l, max_erle_h) ==
    [k \in Bins |-> IF k < FFT_LENGTH_BY_2 \div 2 THEN max_erle_l ELSE max_erle_h]

AccumulatedSpectra_new(num_capture_channels) ==
    [y2 |-> Eager([ch \in 0 .. num_capture_channels - 1 |-> Filled(F32Zero)]),
     e2 |-> Eager([ch \in 0 .. num_capture_channels - 1 |-> Filled(F32Zero)]),
     low_render_energy |-> [ch \in 0 .. num_capture_channels - 1 |-> Filled(FALSE)],
     num_points |-> [ch \in 0 .. num_capture_channels - 1 |-> 0]]

reset_accumulated_spectra(s) ==
    [s EXCEPT !.accum_spectra =
        AccumulatedSpectra_new(Cardinality(DOMAIN s.erle_during_onsets))]

SubbandErleEstimator_reset(s) ==
    LET chs == DOMAIN s.erle
    IN  reset_accumulated_spectra(
            [s EXCEPT !.erle = [ch \in chs |-> Filled(s.min_erle)],
                      !.erle_onset_compensated = [ch \in chs |-> Filled(s.min_erle)],
                      !.erle_unbounded = [ch \in chs |-> Filled(s.min_erle)],
                      !.erle_during_onsets = [ch \in chs |-> Filled(s.min_erle)],
                      !.coming_onset = [ch \in chs |-> Filled(TRUE)],
                      !.hold_counters = [ch \in chs |-> Filled(0)]])

SubbandErleEstimator_new(config, num_capture_channels) ==
    LET chs == 0 .. num_capture_channels - 1
    IN  SubbandErleEstimator_reset(
            [kind |-> "SubbandErleEstimator",
             panicked |-> FALSE,
             use_onset_detection |-> config["erle__onset_detection"],
             min_erle |-> config["erle__min"],
             max_erle |-> set_max_erle_bands(config["erle__max_l"], config["erle__max_h"]),
             use_min_erle_during_onsets |-> TRUE,
             accum_spectra |-> AccumulatedSpectra_new(num_capture_channels),
             erle |-> [ch \in chs |-> Filled(F32Zero)],
             erle_onset_compensated |-> [ch \in chs |-> Filled(F32Zero)],
             erle_unbounded |-> [ch \in chs |-> Filled(F32Zero)],
             erle_during_onsets |-> [ch \in chs |-> Filled(F32Zero)],
             coming_onset |-> [ch \in chs |-> Filled(FALSE)],
             hold_counters |-> [ch \in chs |-> Filled(0)]])

\* 0.0, 0.1, 0.05, 0.3, 0.15 and 0.97 as f32
ALPHA_LOW_RENDER == F32Zero
ALPHA_DECREASE == F32(0, 123, 5033165)
ALPHA_INCREASE == F32(0, 122, 5033165)
ALPHA_ONSET_DECREASE == F32(0, 125, 1677722)
ALPHA_ONSET_INCREASE == F32(0, 124, 1677722)
ONSET_DECAY == F32(0, 126, 7885292)

\* f32::max: if one argument is NaN the other is returned.
f32_max(a, b) ==
    IF is_nan(a) THEN b
    ELSE IF is_nan(b) THEN a
    ELSE IF F32Lt(a, b) THEN b ELSE a

\* update_erle_band without the clamp.
update_erle_band_NoClamp(erle, new_erle, low_render_energy, min_erle, max_erle) ==
    LET alpha == IF F32Lt(new_erle, erle)
                 THEN IF low_render_energy THEN ALPHA_LOW_RENDER ELSE ALPHA_DECREASE
                 ELSE ALPHA_INCREASE
    IN  [value |-> f32_add(erle, f32_mul(alpha, f32_sub(new_erle, erle))),
         panic |-> FALSE]

\* The new *erle and whether the clamp panics.
update_erle_band(erle, new_erle, low_render_energy, min_erle, max_erle) ==
    LET alpha == IF F32Lt(new_erle, erle)
                 THEN IF low_render_energy THEN ALPHA_LOW_RENDER ELSE ALPHA_DECREASE
                 ELSE ALPHA_INCREASE
    IN  f32_clamp(f32_add(erle, f32_mul(alpha, f32_sub(new_erle, erle))),
                  min_erle, max_erle)

\* accumulate_channel with the test on any channel's filter in place of the
\* channel's own.
accumulate_channel_AnyConverged(a, ch, x2, y2, e2, converged_filters) ==
    IF ~(\E c \in DOMAIN converged_filters : converged_filters[c])
    THEN [y2 |-> a.y2[ch], e2 |-> a.e2[ch],
          low_render_energy |-> a.low_render_energy[ch],
          num_points |-> a.num_points[ch]]
    ELSE LET restart == a.num_points[ch] = POINTS_TO_ACCUMULATE
         IN  [y2 |-> MapBins(LAMBDA k : << IF restart THEN F32Zero ELSE a.y2[ch][k],
                                               y2[ch][k] >>,
                             LAMBDA x : f32_add(x[1], x[2])),
              e2 |-> MapBins(LAMBDA k : << IF restart THEN F32Zero ELSE a.e2[ch][k],
                                               e2[ch][k] >>,
                             LAMBDA x : f32_add(x[1], x[2])),
              low_render_energy |-> Eager([k \in Bins |->
                        (IF restart THEN FALSE ELSE a.low_render_energy[ch][k])
                           \/ F32Lt(x2[k], X2_BAND_ENERGY_THRESHOLD)]),
              num_points |-> (IF restart THEN 0 ELSE a.num_points[ch]) + 1]

\* update_accumulated_spectra for one channel: the channel's y2, e2,
\* low_render_energy and num_points.
accumulate_channel(a, ch, x2, y2, e2, converged_filters) ==
    IF ~converged_filters[ch]
    THEN [y2 |-> a.y2[ch], e2 |-> a.e2[ch],
          low_render_energy |-> a.low_render_energy[ch],
          num_points |-> a.num_points[ch]]
    ELSE LET restart == a.num_points[ch] = POINTS_TO_ACCUMULATE
         IN  [y2 |-> MapBins(LAMBDA k : << IF restart THEN F32Zero ELSE a.y2[ch][k],
                                               y2[ch][k] >>,
                             LAMBDA x : f32_add(x[1], x[2])),
              e2 |-> MapBins(LAMBDA k : << IF restart THEN F32Zero ELSE a.e2[ch][k],
                                               e2[ch][k] >>,
                             LAMBDA x : f32_add(x[1], x[2])),
              low_render_energy |-> Eager([k \in Bins |->
                        (IF restart THEN FALSE ELSE a.low_render_energy[ch][k])
                           \/ F32Lt(x2[k], X2_BAND_ENERGY_THRESHOLD)]),
              num_points |-> (IF restart THEN 0 ELSE a.num_points[ch]) + 1]

update_accumulated_spectra(s, x2, y2, e2, converged_filters) ==
    Let(Eager([ch \in DOMAIN y2 |->
                 accumulate_channel(s.accum_spectra, ch, x2, y2, e2, converged_filters)]),
        LAMBDA acc :
            [s EXCEPT !.accum_spectra =
                [y2 |-> Eager([ch \in DOMAIN acc |-> acc[ch].y2]),
                 e2 |-> Eager([ch \in DOMAIN acc |-> acc[ch].e2]),
                 low_render_energy |->
                     Eager([ch \in DOMAIN acc |-> acc[ch].low_render_energy]),
                 num_points |-> Eager([ch \in DOMAIN acc |-> acc[ch].num_points])]])

\* Bin k of channel ch: what update_bands and
\* decrease_erle_per_band_for_low_render_signals read and write of it.
band_of(s, ch, k) ==
    [inner |-> k \in InnerBins,
     max_erle |-> s.max_erle[k],
     y2 |-> s.accum_spectra.y2[ch][k],
     e2 |-> s.accum_spectra.e2[ch][k],
     low_render_energy |-> s.accum_spectra.low_render_energy[ch][k],
     erle |-> s.erle[ch][k],
     erle_onset_compensated |-> s.erle_onset_compensated[ch][k],
     erle_unbounded |-> s.erle_unbounded[ch][k],
     erle_during_onsets |-> s.erle_during_onsets[ch][k],
     coming_onset |-> s.coming_onset[ch][k],
     hold_counters |-> s.hold_counters[ch][k],
     panic |-> FALSE]

\* The bin of update_band from the results of the three update_erle_band
\* calls and the new erle_during_onsets.
updated_band(b, onset, e, oc, ub, during) ==
    [b EXCEPT
       !.erle = e.value,
       !.erle_onset_compensated = oc.value,
       !.erle_unbounded = ub.value,
       !.erle_during_onsets = during.value,
       !.coming_onset = IF onset THEN FALSE ELSE @,
       !.hold_counters = IF onset THEN BLOCKS_FOR_ONSET_DETECTION ELSE @,
       !.panic = e.panic \/ oc.panic \/ ub.panic \/ during.panic]

\* update_bands for the bin b of a channel, on the completion of a window.
update_band(s, b) ==
    LET is_erle_updated == F32Gt(b.e2, F32Zero)
        onset == s.use_onset_detection /\ is_erle_updated /\ ~b.low_render_energy
        during == b.erle_during_onsets
        unchanged(v) == [value |-> v, panic |-> FALSE]
    IN  Let(f32_div(b.y2, b.e2), LAMBDA new_erle :
        Let(IF is_erle_updated
            THEN update_erle_band(b.erle, new_erle, b.low_render_energy,
                                  s.min_erle, b.max_erle)
            ELSE unchanged(b.erle), LAMBDA e :
        Let(IF is_erle_updated /\ s.use_onset_detection
            THEN update_erle_band(b.erle_onset_compensated, new_erle,
                                  b.low_render_energy, s.min_erle, b.max_erle)
            ELSE unchanged(b.erle_onset_compensated), LAMBDA oc :
        Let(IF is_erle_updated
            THEN update_erle_band(b.erle_unbounded, new_erle,
                                  b.low_render_energy, s.min_erle, UNBOUNDED_ERLE_MAX)
            ELSE unchanged(b.erle_unbounded), LAMBDA ub :
        Let(IF onset /\ b.coming_onset /\ ~s.use_min_erle_during_onsets
            THEN f32_clamp(
                     f32_add(during,
                             f32_mul(IF F32Lt(new_erle, during)
                                     THEN ALPHA_ONSET_DECREASE
                                     ELSE ALPHA_ONSET_INCREASE,
                                     f32_sub(new_erle, during))),
                     s.min_erle, b.max_erle)
            ELSE unchanged(during), LAMBDA new_during :
        updated_band(b, onset, e, oc, ub, new_during))))))

\* update_bands with the test of the point count left out.
update_bands_EveryBlock(s, converged_filters) ==
    Eager([ch \in DOMAIN s.accum_spectra.y2 |->
        MapBins(LAMBDA k : band_of(s, ch, k),
                LAMBDA b :
                    IF ch \in DOMAIN converged_filters /\ converged_filters[ch]
                       /\ b.inner
                    THEN update_band(s, b)
                    ELSE b)])

\* update_bands: the bins of every channel.
update_bands(s, converged_filters) ==
    Eager([ch \in DOMAIN s.accum_spectra.y2 |->
        MapBins(LAMBDA k : band_of(s, ch, k),
                LAMBDA b :
                    IF ch \in DOMAIN converged_filters /\ converged_filters[ch]
                       /\ s.accum_spectra.num_points[ch] = POINTS_TO_ACCUMULATE
                       /\ b.inner
                    THEN update_band(s, b)
                    ELSE b)])

\* The decrease with the floor erle_during_onsets left out.
decrease_band_NoFloor(s, b) ==
    LET hold == b.hold_counters - 1
        expired == hold <= BLOCKS_FOR_ONSET_DETECTION - BLOCKS_TO_HOLD_ERLE
        decreased == expired /\ F32Gt(b.erle_onset_compensated, b.erle_during_onsets)
    IN  IF ~(s.use_onset_detection /\ b.inner) THEN b
        ELSE Let(IF decreased
                 THEN f32_mul(ONSET_DECAY, b.erle_onset_compensated)
                 ELSE b.erle_onset_compensated, LAMBDA compensated :
             [b EXCEPT
                !.hold_counters = IF expired /\ hold <= 0 THEN 0 ELSE hold,
                !.coming_onset = IF expired /\ hold <= 0 THEN TRUE ELSE @,
                !.erle_onset_compensated = compensated,
                !.panic = @ \/ (decreased /\ ~F32Le(s.min_erle, compensated))])

\* decrease_erle_per_band_for_low_render_signals for one bin b; the
\* debug_assert fails when the decreased value is below min_erle.
decrease_band(s, b) ==
    LET hold == b.hold_counters - 1
        expired == hold <= BLOCKS_FOR_ONSET_DETECTION - BLOCKS_TO_HOLD_ERLE
        decreased == expired /\ F32Gt(b.erle_onset_compensated, b.erle_during_onsets)
    IN  IF ~(s.use_onset_detection /\ b.inner) THEN b
        ELSE Let(IF decreased
                 THEN f32_max(b.erle_during_onsets,
                              f32_mul(ONSET_DECAY, b.erle_onset_compensated))
                 ELSE b.erle_onset_compensated, LAMBDA compensated :
             [b EXCEPT
                !.hold_counters = IF expired /\ hold <= 0 THEN 0 ELSE hold,
                !.coming_onset = IF expired /\ hold <= 0 THEN TRUE ELSE @,
                !.erle_onset_compensated = compensated,
                !.panic = @ \/ (decreased /\ ~F32Le(s.min_erle, compensated))])

\* The value bin k has at the end of update: bins 0 and FFT_LENGTH_BY_2 are
\* copies of their neighbours.
Neighbour(k) ==
    IF k = 0 THEN 1 ELSE IF k = FFT_LENGTH_BY_2 THEN FFT_LENGTH_BY_2 - 1 ELSE k

SubbandErleEstimator_assemble(s, bins) ==
    LET chs == DOMAIN s.erle
    IN  [s EXCEPT
          !.panicked = @ \/ \E ch \in chs, k \in Bins : bins[ch][k].panic,
          !.erle = [ch \in chs |-> Eager([k \in Bins |-> bins[ch][Neighbour(k)].erle])],
          !.erle_onset_compensated =
              [ch \in chs |-> [k \in Bins |-> bins[ch][Neighbour(k)].erle_onset_compensated]],
          !.erle_unbounded =
              [ch \in chs |-> [k \in Bins |-> bins[ch][Neighbour(k)].erle_unbounded]],
          !.erle_during_onsets =
              [ch \in chs |-> [k \in Bins |-> bins[ch][k].erle_during_onsets]],
          !.coming_onset = [ch \in chs |-> [k \in Bins |-> bins[ch][k].coming_onset]],
          !.hold_counters = [ch \in chs |-> [k \in Bins |-> bins[ch][k].hold_counters]]]

\* update: update_accumulated_spectra, update_bands, the decrease for low
\* render signals when onset detection is used, and the copies into bins 0
\* and FFT_LENGTH_BY_2.
SubbandErleEstimator_update(s, x2, y2, e2, converged_filters) ==
    Let(update_accumulated_spectra(s, x2, y2, e2, converged_filters), LAMBDA a :
    Let(update_bands(a, converged_filters), LAMBDA bands :
    Let(Eager([ch \in DOMAIN a.erle |->
                 MapBins(LAMBDA k : bands[ch][k], LAMBDA b : decrease_band(a, b))]),
        LAMBDA bins : SubbandErleEstimator_assemble(a, bins))))

(***************************************************************************)
(* compute_erl (adaptive_fir_filter_erl.rs).                               *)
(***************************************************************************)
\* SimdBackend::elementwise_accumulate, scalar reference: z[k] += x[k].
elementwise_accumulate(x, z) == Eager([k \in DOMAIN z |-> f32_add(z[k], x[k])])

\* One turn of the loop of compute_erl: the partition h2_j added to erl.
accumulate_partition(h2_j, erl) ==
    Let(elementwise_accumulate([k \in 0 .. FFT_LENGTH_BY_2 - 1 |-> h2_j[k]],
                               [k \in 0 .. FFT_LENGTH_BY_2 - 1 |-> erl[k]]),
        LAMBDA low :
            Eager([k \in Bins |->
                     IF k < FFT_LENGTH_BY_2 THEN low[k]
                     ELSE f32_add(erl[FFT_LENGTH_BY_2], h2_j[FFT_LENGTH_BY_2])]))

\* The loop of compute_erl from partition j on.
RECURSIVE accumulate_partitions(_, _, _)
accumulate_partitions(h2, j, erl) ==
    IF j > Len(h2) THEN erl
    ELSE Let(accumulate_partition(h2[j], erl),
             LAMBDA next : accumulate_partitions(h2, j + 1, next))

\* compute_erl without erl.fill(0.0).
compute_erl_NoFill(h2, erl) == accumulate_partitions(h2, 1, erl)

\* The contents of erl after compute_erl(backend, h2, erl).
compute_erl(h2, erl) == accumulate_partitions(h2, 1, Filled(F32Zero))

(***************************************************************************)
(* Config (sonora/src/config.rs) and its conversions to and from the flat  *)
(* C struct WapConfig (sonora/src/ffi/conversions.rs).  Option<T> is a     *)
(* record with the field some, and the field v when some is TRUE.          *)
(***************************************************************************)
None == [some |-> FALSE]
Some(x) == [some |-> TRUE, v |-> x]

\* MaxProcessingRate::as_hz
as_hz(rate) == IF rate = "Rate32kHz" THEN 32000 ELSE 48000

Pipeline_default ==
    [maximum_internal_processing_rate |-> "Rate32kHz",
     multi_channel_render |-> FALSE,
     multi_channel_capture |-> FALSE,
     capture_downmix_method |-> "AverageChannels"]

PreAmplifier_default == [fixed_gain_factor |-> F32One]

AnalogMicGainEmulation_default == [initial_level |-> 255]

CaptureLevelAdjustment_default ==
    [pre_gain_factor |-> F32One,
     post_gain_factor |-> F32One,
     analog_mic_gain_emulation |-> None]

HighPassFilter_default == [apply_in_full_band |-> TRUE]

EchoCanceller_default == [enforce_high_pass_filtering |-> TRUE]

NoiseSuppression_default ==
    [level |-> "Moderate", analyze_linear_aec_output_when_available |-> FALSE]

\* 5.0, 50.0, 15.0, 6.0 and -50.0
AdaptiveDigital_default ==
    [headroom_db |-> F32(0, 129, 2097152),
     max_gain_db |-> F32(0, 132, 4718592),
     initial_gain_db |-> F32(0, 130, 7340032),
     max_gain_change_db_per_second |-> F32(0, 129, 4194304),
     max_output_noise_level_dbfs |-> F32(1, 132, 4718592)]

FixedDigital_default == [gain_db |-> F32Zero]

Config_default ==
    [pipeline |-> Pipeline_default,
     pre_amplifier |-> None,
     capture_level_adjustment |-> None,
     high_pass_filter |-> None,
     echo_canceller |-> None,
     noise_suppression |-> None,
     gain_controller2 |-> None]

\* WapNoiseSuppressionLevel::to_rust / from_rust
WapNoiseSuppressionLevel_to_rust(level) ==
    IF level = "WapLow" THEN "Low"
    ELSE IF level = "WapModerate" THEN "Moderate"
    ELSE IF level = "WapHigh" THEN "High"
    ELSE "VeryHigh"

WapNoiseSuppressionLevel_from_rust(level) ==
    IF level = "Low" THEN "WapLow"
    ELSE IF level = "Moderate" THEN "WapModerate"
    ELSE IF level = "High" THEN "WapHigh"
    ELSE "WapVeryHigh"

\* WapDownmixMethod::to_rust / from_rust
WapDownmixMethod_to_rust(method) ==
    IF method = "WapAverageChannels" THEN "AverageChannels" ELSE "UseFirstChannel"

WapDownmixMethod_from_rust(method) ==
    IF method = "AverageChannels" THEN "WapAverageChannels" ELSE "WapUseFirstChannel"

\* The Option<AnalogMicGainEmulation> of to_rust: clamp(0, 255) as u8.
to_rust_analog_mic_gain_emulation(w) ==
    IF w.analog_mic_gain_emulation_enabled
    THEN Some([initial_level |->
                  int_clamp(w.analog_mic_gain_emulation_initial_level, 0, 255).value % 256])
    ELSE None

\* The Option<GainController2> of to_rust.
to_rust_gain_controller2(w) ==
    IF w.gain_controller2_enabled
    THEN Some(
           [input_volume_controller |->
                w.gain_controller2_input_volume_controller_enabled,
            adaptive_digital |->
                IF w.gain_controller2_adaptive_digital_enabled
                THEN Some(
                       [headroom_db |-> w.gain_controller2_adaptive_digital_headroom_db,
                        max_gain_db |-> w.gain_controller2_adaptive_digital_max_gain_db,
                        initial_gain_db |->
                            w.gain_controller2_adaptive_digital_initial_gain_db,
                        max_gain_change_db_per_second |->
                            w.gain_controller2_adaptive_digital_max_gain_change_db_per_second,
                        max_output_noise_level_dbfs |->
                            w.gain_controller2_adaptive_digital_max_output_noise_level_dbfs])
                ELSE None,
            fixed_digital |-> [gain_db |-> w.gain_controller2_fixed_digital_gain_db]])
    ELSE None

\* The conversion with the analog mic gain emulation never enabled.
WapConfig_to_rust_NoEmulation(w) ==
    [pipeline |->
        [maximum_internal_processing_rate |->
            IF w.pipeline_maximum_internal_processing_rate = 32000
            THEN "Rate32kHz" ELSE "Rate48kHz",
         multi_channel_render |-> w.pipeline_multi_channel_render,
         multi_channel_capture |-> w.pipeline_multi_channel_capture,
         capture_downmix_method |->
            WapDownmixMethod_to_rust(w.pipeline_capture_downmix_method)],
     pre_amplifier |->
        IF w.pre_amplifier_enabled
        THEN Some([fixed_gain_factor |-> w.pre_amplifier_fixed_gain_factor])
        ELSE None,
     capture_level_adjustment |->
        IF w.capture_level_adjustment_enabled
        THEN Some([pre_gain_factor |-> w.capture_level_adjustment_pre_gain_factor,
                   post_gain_factor |-> w.capture_level_adjustment_post_gain_factor,
                   analog_mic_gain_emulation |-> None])
        ELSE None,
     high_pass_filter |->
        IF w.high_pass_filter_enabled
        THEN Some([apply_in_full_band |-> w.high_pass_filter_apply_in_full_band])
        ELSE None,
     echo_canceller |->
        IF w.echo_canceller_enabled
        THEN Some([enforce_high_pass_filtering |->
                      w.echo_canceller_enforce_high_pass_filtering])
        ELSE None,
     noise_suppression |->
        IF w.noise_suppression_enabled
        THEN Some([level |-> WapNoiseSuppressionLevel_to_rust(w.noise_suppression_level),
                   analyze_linear_aec_output_when_available |->
                      w.noise_suppression_analyze_linear_aec_output_when_available])
        ELSE None,
     gain_controller2 |-> to_rust_gain_controller2(w)]

\* WapConfig::to_rust
WapConfig_to_rust(w) ==
    [pipeline |->
        [maximum_internal_processing_rate |->
            IF w.pipeline_maximum_internal_processing_rate = 32000
            THEN "Rate32kHz" ELSE "Rate48kHz",
         multi_channel_render |-> w.pipeline_multi_channel_render,
         multi_channel_capture |-> w.pipeline_multi_channel_capture,
         capture_downmix_method |->
            WapDownmixMethod_to_rust(w.pipeline_capture_downmix_method)],
     pre_amplifier |->
        IF w.pre_amplifier_enabled
        THEN Some([fixed_gain_factor |-> w.pre_amplifier_fixed_gain_factor])
        ELSE None,
     capture_level_adjustment |->
        IF w.capture_level_adjustment_enabled
        THEN Some([pre_gain_factor |-> w.capture_level_adjustment_pre_gain_factor,
                   post_gain_factor |-> w.capture_level_adjustment_post_gain_factor,
                   analog_mic_gain_emulation |-> to_rust_analog_mic_gain_emulation(w)])
        ELSE None,
     high_pass_filter |->
        IF w.high_pass_filter_enabled
        THEN Some([apply_in_full_band |-> w.high_pass_filter_apply_in_full_band])
        ELSE None,
     echo_canceller |->
        IF w.echo_canceller_enabled
        THEN Some([enforce_high_pass_filtering |->
                      w.echo_canceller_enforce_high_pass_filtering])
        ELSE None,
     noise_suppression |->
        IF w.noise_suppression_enabled
        THEN Some([level |-> WapNoiseSuppressionLevel_to_rust(w.noise_suppression_level),
                   analyze_linear_aec_output_when_available |->
                      w.noise_suppression_analyze_linear_aec_output_when_available])
        ELSE None,
     gain_controller2 |-> to_rust_gain_controller2(w)]

\* WapConfig::from_rust
WapConfig_from_rust(config) ==
    LET pa == config.pre_amplifier
        cla == config.capture_level_adjustment
        amge == IF cla.some THEN cla.v.analog_mic_gain_emulation ELSE None
        hpf == config.high_pass_filter
        ec == config.echo_canceller
        ns == config.noise_suppression
        gc2 == config.gain_controller2
        ad == IF gc2.some /\ gc2.v.adaptive_digital.some
              THEN gc2.v.adaptive_digital.v
              ELSE AdaptiveDigital_default
    IN  [pipeline_maximum_internal_processing_rate |->
             as_hz(config.pipeline.maximum_internal_processing_rate),
         pipeline_multi_channel_render |-> config.pipeline.multi_channel_render,
         pipeline_multi_channel_capture |-> config.pipeline.multi_channel_capture,
         pipeline_capture_downmix_method |->
             WapDownmixMethod_from_rust(config.pipeline.capture_downmix_method),
         pre_amplifier_enabled |-> pa.some,
         pre_amplifier_fixed_gain_factor |->
             IF pa.some THEN pa.v.fixed_gain_factor
             ELSE PreAmplifier_default.fixed_gain_factor,
         capture_level_adjustment_enabled |-> cla.some,
         capture_level_adjustment_pre_gain_factor |->
             IF cla.some THEN cla.v.pre_gain_factor
             ELSE CaptureLevelAdjustment_default.pre_gain_factor,
         capture_level_adjustment_post_gain_factor |->
             IF cla.some THEN cla.v.post_gain_factor
             ELSE CaptureLevelAdjustment_default.post_gain_factor,
         analog_mic_gain_emulation_enabled |-> amge.some,
         analog_mic_gain_emulation_initial_level |->
             IF amge.some THEN amge.v.initial_level
             ELSE AnalogMicGainEmulation_default.initial_level,
         high_pass_filter_enabled |-> hpf.some,
         high_pass_filter_apply_in_full_band |->
             IF hpf.some THEN hpf.v.apply_in_full_band
             ELSE HighPassFilter_default.apply_in_full_band,
         echo_canceller_enabled |-> ec.some,
         echo_canceller_enforce_high_pass_filtering |->
             IF ec.some THEN ec.v.enforce_high_pass_filtering
             ELSE EchoCanceller_default.enforce_high_pass_filtering,
         noise_suppression_enabled |-> ns.some,
         noise_suppression_level |->
             WapNoiseSuppressionLevel_from_rust(
                 IF ns.some THEN ns.v.level ELSE NoiseSuppression_default.level),
         noise_suppression_analyze_linear_aec_output_when_available |->
             IF ns.some THEN ns.v.analyze_linear_aec_output_when_available
             ELSE NoiseSuppression_default.analyze_linear_aec_output_when_available,
         gain_controller2_enabled |-> gc2.some,
         gain_controller2_fixed_digital_gain_db |->
             IF gc2.some THEN gc2.v.fixed_digital.gain_db
             ELSE FixedDigital_default.gain_db,
         gain_controller2_adaptive_digital_enabled |->
             gc2.some /\ gc2.v.adaptive_digital.some,
         gain_controller2_adaptive_digital_headroom_db |-> ad.headroom_db,
         gain_controller2_adaptive_digital_max_gain_db |-> ad.max_gain_db,
         gain_controller2_adaptive_digital_initial_gain_db |-> ad.initial_gain_db,
         gain_controller2_adaptive_digital_max_gain_change_db_per_second |->
             ad.max_gain_change_db_per_second,
         gain_controller2_adaptive_digital_max_output_noise_level_dbfs |->
             ad.max_output_noise_level_dbfs,
         gain_controller2_input_volume_controller_enabled |->
             gc2.some /\ gc2.v.input_volume_controller]

(***************************************************************************)
(* sonora-ns: SpeechProbabilityEstimator.  The signal model estimator, the *)
(* spectrum size and exp_approximation_sign_flip live in modules whose     *)
(* code is not part of the sources; they follow the specification          *)
(* ("p[k] = 1 / (1 + ((1-prior)/(prior+0.0001)) * exp(-avgLogLRT[k]))").   *)
(***************************************************************************)
FFT_SIZE_BY_2_PLUS_1 == 129

NsBins == 0 .. FFT_SIZE_BY_2_PLUS_1 - 1

\* 0.5, 2.0, 10.0, 0.1, 0.01 and 0.0001 as f32
F32_HALF == F32(0, 126, 0)
F32_TWO == F32(0, 128, 0)
F32_TEN == F32(0, 130, 2097152)
F32_TENTH == F32(0, 123, 5033165)
F32_HUNDREDTH == F32(0, 120, 2348810)
F32_TEN_THOUSANDTH == F32(0, 113, 5355287)

f32_abs(x) == [x EXCEPT !.s = 0]

\* tanh on the magnitudes the inputs below produce: argument |-> value.
TanhTable ==
    { << F32(0, 126, 0), F32(0, 125, 7117471) >>,      \* 0.5 |-> 0.46211717
      << F32(0, 127, 0), F32(0, 126, 4388822) >>,      \* 1.0 |-> 0.7615942
      << F32(0, 128, 0), F32(0, 126, 7785091) >>,      \* 2.0 |-> 0.9640276
      << F32(0, 129, 0), F32(0, 126, 8377356) >> }     \* 4.0 |-> 0.9993293

\* f32::tanh: odd, tanh(+-0) = +-0, NaN stays NaN, and the result rounds to
\* +-1.0 from |x| = 10 on (1 - tanh(10) < 2^-25).
f32_tanh(x) ==
    IF is_nan(x) \/ is_zero(x) THEN x
    ELSE IF F32Le(F32_TEN, f32_abs(x)) THEN [F32One EXCEPT !.s = x.s]
    ELSE [(CHOOSE p \in TanhTable : p[1] = f32_abs(x))[2] EXCEPT !.s = x.s]

\* exp(-x) on the arguments the inputs below produce: x |-> exp(-x).
ExpSignFlipTable ==
    { << F32(0, 0, 0), F32(0, 127, 0) >>,              \*    0.0 |-> 1.0
      << F32(0, 126, 0), F32(0, 126, 1787288) >>,      \*    0.5 |-> 0.60653067
      << F32(0, 127, 0), F32(0, 125, 3955378) >>,      \*    1.0 |-> 0.36787945
      << F32(1, 127, 0), F32(0, 128, 3012692) >>,      \*   -1.0 |-> 2.7182817
      << F32(0, 129, 0), F32(0, 121, 1444526) >>,      \*    4.0 |-> 0.01831564
      << F32(1, 133, 3145728), F32(0, 253, 7897783) >>, \* -88.0 |-> 1.6516363e38
      << F32(0, 133, 4718592), F32(0, 0, 27) >>,       \*  100.0 |-> 3.8e-44
      << F32(1, 133, 4718592), F32(0, 255, 0) >>,      \* -100.0 |-> +inf
      << F32(0, 134, 4718592), F32(0, 0, 0) >> }       \*  200.0 |-> 0.0

\* exp_approximation_sign_flip(x, y): y[k] = exp(-x[k]).
exp_approximation_sign_flip(x) ==
    Let(Eager([v \in {x[k] : k \in NsBins} |->
                 (CHOOSE p \in ExpSignFlipTable : p[1] = v)[2]]), LAMBDA T :
    Eager([k \in NsBins |-> T[x[k]]]))

\* Width parameter in sigmoid map for prior model, and for the pause region.
WIDTH_PRIOR_0 == F32(0, 129, 0)
WIDTH_PRIOR_1 == f32_mul(F32_TWO, WIDTH_PRIOR_0)

\* 0.5 * ((width_prior * diff).tanh() + 1.0), width_prior chosen by pause.
indicator(pause, diff) ==
    LET width_prior == IF pause THEN WIDTH_PRIOR_1 ELSE WIDTH_PRIOR_0
    IN  f32_mul(F32_HALF, f32_add(f32_tanh(f32_mul(width_prior, diff)), F32One))

\* SpeechProbabilityEstimator::default()
SpeechProbabilityEstimator_default ==
    [prior_speech_prob  |-> F32_HALF,
     speech_probability |-> Eager([k \in NsBins |-> F32Zero]),
     panicked           |-> FALSE]

\* self.speech_probability after the final loop of update.
speech_probabilities(gain_prior, inv_lrt) ==
    Let(Eager([il \in {inv_lrt[k] : k \in NsBins} |->
                 f32_div(F32One, f32_add(F32One, f32_mul(gain_prior, il)))]), LAMBDA T :
    Eager([k \in NsBins |-> T[inv_lrt[k]]]))

\* update from "let model = ..." on, given the prior after
\* "self.prior_speech_prob += 0.1 * (ind_prior - self.prior_speech_prob)"
\* and its clamping.
update_with_prior(s, model, clamped) ==
    Let(clamped.value, LAMBDA prior_speech_prob :
    Let(f32_div(f32_sub(F32One, prior_speech_prob),
                f32_add(prior_speech_prob, F32_TEN_THOUSANDTH)), LAMBDA gain_prior :
        [prior_speech_prob  |-> prior_speech_prob,
         speech_probability |->
             speech_probabilities(gain_prior,
                                  exp_approximation_sign_flip(model.avg_log_lrt)),
         panicked           |-> s.panicked \/ clamped.panic]))

\* The prior before clamping.
updated_prior(s, model, prior_model) ==
    LET indicator0 == indicator(F32Lt(model.lrt, prior_model.lrt),
                                f32_sub(model.lrt, prior_model.lrt))
        indicator1 == indicator(F32Gt(model.spectral_flatness,
                                      prior_model.flatness_threshold),
                                f32_sub(prior_model.flatness_threshold,
                                        model.spectral_flatness))
        indicator2 == indicator(F32Lt(model.spectral_diff,
                                      prior_model.template_diff_threshold),
                                f32_sub(model.spectral_diff,
                                        prior_model.template_diff_threshold))
    IN  Let(f32_add(f32_add(f32_mul(prior_model.lrt_weighting, indicator0),
                            f32_mul(prior_model.flatness_weighting, indicator1)),
                    f32_mul(prior_model.difference_weighting, indicator2)),
            LAMBDA ind_prior :
                f32_add(s.prior_speech_prob,
                        f32_mul(F32_TENTH, f32_sub(ind_prior, s.prior_speech_prob))))

\* update without "self.prior_speech_prob.clamp(0.01, 1.0)".
SpeechProbabilityEstimator_update_NoClamp(s, model, prior_model) ==
    update_with_prior(s, model,
        [value |-> updated_prior(s, model, prior_model), panic |-> FALSE])

\* SpeechProbabilityEstimator::update, from the model and prior model the
\* signal model estimator returns.
SpeechProbabilityEstimator_update(s, model, prior_model) ==
    update_with_prior(s, model,
        f32_clamp(updated_prior(s, model, prior_model), F32_HUNDREDTH, F32One))

(***************************************************************************)
(* Comfort noise generator (comfort_noise_generator.rs).  A u32 is kept as *)
(* its two 16-bit halves, an FftData as its re and im arrays.  The         *)
(* elementwise square root of the SIMD backend, whose code is not part of  *)
(* the sources, is the IEEE square root of each element.                   *)
(***************************************************************************)
U32(hi, lo) == [hi |-> hi, lo |-> lo]

RECURSIVE SqrtBits(_, _, _, _)
\* The integer square root of M * 4^14 by pairs of bits, M below 4^13: root
\* q and remainder r after the n pairs still to come.
SqrtBits(q, r, M, n) ==
    IF n = 0 THEN [q |-> q, r |-> r]
    ELSE LET pair == IF n > 14 THEN (M \div Pow2(2 * (n - 15))) % 4 ELSE 0
             r1 == 4 * r + pair
             t == 4 * q + 1
         IN  IF r1 >= t THEN SqrtBits(2 * q + 1, r1 - t, M, n - 1)
             ELSE SqrtBits(2 * q, r1, M, n - 1)

\* f32::sqrt
f32_sqrt(x) ==
    IF is_nan(x) \/ is_zero(x) THEN x
    ELSE IF x.s = 1 THEN F32NaN
    ELSE IF ~is_finite(x) THEN x
    ELSE
    LET sh == 24 - BitLen(Significand(x))
        E == Exponent(x) - sh
        odd == E % 2 = 1
        M == Significand(x) * Pow2(sh) * (IF odd THEN 2 ELSE 1)
        E2 == IF odd THEN E - 1 ELSE E
        root == SqrtBits(0, 0, M, 27)
    IN  f32_round(0, root.q, (E2 \div 2) - 14, root.r # 0)

\* VectorMath::sqrt: x[k] = sqrt(x[k])
VectorMath_sqrt(x) == MapBins(LAMBDA k : x[k], f32_sqrt)

\* Table of sqrt(2) * sin(2*pi*i/32), entry i at position i + 1.
K_SQRT2_SIN ==
    << F32(0, 0, 0), F32(0, 125, 869040), F32(0, 126, 691156), F32(0, 126, 4793167),
       F32(0, 127, 0), F32(0, 127, 1475351), F32(0, 127, 2571637), F32(0, 127, 3246725),
       F32(0, 127, 3474675), F32(0, 127, 3246725), F32(0, 127, 2571637), F32(0, 127, 1475351),
       F32(0, 127, 0), F32(0, 126, 4793167), F32(0, 126, 691156), F32(0, 125, 869040),
       F32(0, 0, 0), F32(1, 125, 869040), F32(1, 126, 691156), F32(1, 126, 4793167),
       F32(1, 127, 0), F32(1, 127, 1475351), F32(1, 127, 2571637), F32(1, 127, 3246725),
       F32(1, 127, 3474675), F32(1, 127, 3246725), F32(1, 127, 2571637), F32(1, 127, 1475351),
       F32(1, 127, 0), F32(1, 126, 4793167), F32(1, 126, 691156), F32(1, 125, 869040) >>

\* K_SQRT2_SIN[i]: out of bounds for i > 31.
sqrt2_sin(i) ==
    IF i \in 0 .. 31 THEN [value |-> K_SQRT2_SIN[i + 1], panic |-> FALSE]
    ELSE [value |-> F32Zero, panic |-> TRUE]

\* 64.0 * 10.0f32.powf((K_DBFS_NORMALIZATION + noise_floor_dbfs) * 0.1) for
\* the values of noise_floor_dbfs used below: dbfs |-> factor.
NoiseFloorTable ==
    { << F32(1, 133, 4198768), F32(0, 131, 590706) >>,   \* -96.03406 |-> 17.126682
      << F32(1, 134, 4718592), F32(0, 96, 3990769) >>,   \*    -200.0 |-> 6.8719e-10
      << F32(1, 132, 4718592), F32(0, 146, 2606487) >>,  \*     -50.0 |-> 687193.44
      << F32(0, 0, 0), F32(0, 162, 8388576) >> }         \*       0.0 |-> 6.8719e10

get_noise_floor_factor(noise_floor_dbfs) ==
    (CHOOSE p \in NoiseFloorTable : p[1] = noise_floor_dbfs)[2]

\* seed.wrapping_mul(69069).wrapping_add(1), 69069 being 2^16 + 3533, without
\* the mask.
lcg_step_NoMask(seed) ==
    LET a == (3533 * seed.hi + seed.lo) % 65536
        b == 3533 * seed.lo + 1
    IN  U32((a + b \div 65536) % 65536, b % 65536)

\* seed.wrapping_mul(69069).wrapping_add(1) & (0x8000_0000 - 1)
lcg_step(seed) ==
    LET a == (3533 * seed.hi + seed.lo) % 65536
        b == 3533 * seed.lo + 1
    IN  U32(((a + b \div 65536) % 65536) % 32768, b % 65536)

\* (*seed >> 26) as usize
prng_index(seed) == seed.hi \div 1024

RECURSIVE prng_seeds(_, _)
\* The seeds of the next n turns of the loop, in order.
prng_seeds(seed, n) ==
    IF n = 0 THEN << >>
    ELSE IF n = 1 THEN << lcg_step(seed) >>
    ELSE Let(prng_seeds(seed, n \div 2), LAMBDA first :
             first \o prng_seeds(first[Len(first)], n - n \div 2))

RECURSIVE sum_range(_, _, _, _)
\* acc + n[lo] + ... + n[hi], added one by one from the left.
sum_range(n, lo, hi, acc) ==
    IF lo > hi THEN acc
    ELSE IF lo = hi THEN f32_add(acc, n[lo])
    ELSE Let(sum_range(n, lo, (lo + hi) \div 2, acc), LAMBDA a :
             sum_range(n, (lo + hi) \div 2 + 1, hi, a))

\* n[k..].iter().sum::<f32>()
sum_from(n, k) == sum_range(n, k, FFT_LENGTH_BY_2, F32Zero)

\* The sum started one bin later.
K_FFT_LENGTH_BY_2_PLUS_1_BY_2_Next == FFT_LENGTH_BY_2_PLUS_1 \div 2 + 1

\* FFT_LENGTH_BY_2_PLUS_1 / 2
K_FFT_LENGTH_BY_2_PLUS_1_BY_2 == FFT_LENGTH_BY_2_PLUS_1 \div 2

\* 1.0 / (K_FFT_LENGTH_BY_2_PLUS_1_BY_2 + 1) as f32
K_ONE_BY_NUM_BANDS == F32(0, 121, 7880208)

FftData_default == [re |-> Filled(F32Zero), im |-> Filled(F32Zero)]

\* The noise of one band: level[k] * x and level[k] * y on bins
\* 1 .. FFT_LENGTH_BY_2 - 1, re zeroed and im kept on the two outer bins.
shaped_noise(data, level, index) ==
    Let(MapBins(LAMBDA k : << level[k], index[k] >>,
                LAMBDA p : << f32_mul(p[1], sqrt2_sin(p[2]).value),
                              f32_mul(p[1], sqrt2_sin((p[2] + 8) % 32).value) >>),
        LAMBDA xy :
            [re |-> Eager([k \in Bins |-> IF k \in InnerBins THEN xy[k][1] ELSE F32Zero]),
             im |-> Eager([k \in Bins |-> IF k \in InnerBins THEN xy[k][2] ELSE data.im[k]])])

\* generate_comfort_noise: the seed and the two bands after the call.
generate_comfort_noise(n2, seed, lower_band_noise, upper_band_noise) ==
    Let(VectorMath_sqrt(n2), LAMBDA n :
    Let(f32_mul(sum_from(n, K_FFT_LENGTH_BY_2_PLUS_1_BY_2), K_ONE_BY_NUM_BANDS),
        LAMBDA high_band_noise_level :
    Let(prng_seeds(seed, FFT_LENGTH_BY_2 - 1), LAMBDA seeds :
    Let(Eager([k \in Bins |-> IF k \in InnerBins THEN prng_index(seeds[k]) ELSE 0]),
        LAMBDA index :
        [seed |-> seeds[FFT_LENGTH_BY_2 - 1],
         lower_band_noise |-> shaped_noise(lower_band_noise, n, index),
         upper_band_noise |->
             shaped_noise(upper_band_noise, Filled(high_band_noise_level), index),
         panic |-> \E k \in InnerBins : sqrt2_sin(index[k]).panic]))))

\* 0.9, 1.0002, 0.001 and 1.0e6 as f32 (0.1 is F32_TENTH)
F32_NINE_TENTHS == F32(0, 126, 6710886)
F32_N2_GROWTH == F32(0, 127, 1678)
F32_THOUSANDTH == F32(0, 117, 201327)
F32_MILLION == F32(0, 146, 7611392)

\* ComfortNoiseGenerator::new; lower_band_noise and upper_band_noise are
\* the caller's buffers, FftData::default() before the first call.
ComfortNoiseGenerator_new(config, num_capture_channels) ==
    LET chs == 0 .. num_capture_channels - 1
    IN  [seed |-> U32(0, 42),
         num_capture_channels |-> num_capture_channels,
         noise_floor |-> get_noise_floor_factor(config.comfort_noise__noise_floor_dbfs),
         n2_initial |-> Some([ch \in chs |-> Filled(F32Zero)]),
         y2_smoothed |-> [ch \in chs |-> Filled(F32Zero)],
         n2 |-> [ch \in chs |-> Filled(F32_MILLION)],
         n2_counter |-> 0,
         lower_band_noise |-> [ch \in chs |-> FftData_default],
         upper_band_noise |-> [ch \in chs |-> FftData_default],
         panicked |-> FALSE]

\* *y2s_val += 0.1 * (y2_val - *y2s_val)
smooth_y2(y2s_val, y2_val) ==
    f32_add(y2s_val, f32_mul(F32_TENTH, f32_sub(y2_val, y2s_val)))

\* The update of N2 from Y2_smoothed made from the first turn on.
update_n2_NoWarmUp(n2_counter, n2_val, y2s_val) ==
    IF F32Lt(y2s_val, n2_val)
    THEN f32_mul(f32_add(f32_mul(F32_NINE_TENTHS, y2s_val),
                         f32_mul(F32_TENTH, n2_val)), F32_N2_GROWTH)
    ELSE f32_mul(n2_val, F32_N2_GROWTH)

\* "if self.n2_counter > 50": the update of N2 from Y2_smoothed.
update_n2(n2_counter, n2_val, y2s_val) ==
    IF ~(n2_counter > 50) THEN n2_val
    ELSE IF F32Lt(y2s_val, n2_val)
    THEN f32_mul(f32_add(f32_mul(F32_NINE_TENTHS, y2s_val),
                         f32_mul(F32_TENTH, n2_val)), F32_N2_GROWTH)
    ELSE f32_mul(n2_val, F32_N2_GROWTH)

\* Compute the N2_initial from N2 when N2 is at or above it.
update_n2_initial_NoFollow(n2i_val, n2_val) ==
    f32_add(n2i_val, f32_mul(F32_THOUSANDTH, f32_sub(n2_val, n2i_val)))

\* Compute the N2_initial from N2.
update_n2_initial(n2i_val, n2_val) ==
    IF F32Gt(n2_val, n2i_val)
    THEN f32_add(n2i_val, f32_mul(F32_THOUSANDTH, f32_sub(n2_val, n2i_val)))
    ELSE n2_val

\* The n2_counter at which N2_initial is dropped.
N2_INITIAL_BLOCKS == 1000

\* The non-saturated branch of compute for one bin: b holds the bin's
\* y2_smoothed, n2, n2_initial and the capture spectrum y2.
update_bin(s, b) ==
    Let(smooth_y2(b.y2_smoothed, b.y2), LAMBDA y2s :
    Let(update_n2(s.n2_counter, b.n2, y2s), LAMBDA n2 :
        [y2_smoothed |-> y2s,
         n2 |-> f32_max(n2, s.noise_floor),
         n2_initial |->
             IF s.n2_initial.some /\ s.n2_counter + 1 # N2_INITIAL_BLOCKS
             THEN f32_max(update_n2_initial(b.n2_initial, n2), s.noise_floor)
             ELSE b.n2_initial]))

\* The estimates after the non-saturated branch of compute.
update_estimates(s, y2) ==
    LET chs == DOMAIN s.n2
        keep == s.n2_initial.some /\ s.n2_counter + 1 # N2_INITIAL_BLOCKS
    IN  Let(Eager([ch \in chs |->
                MapBins(LAMBDA k : [y2_smoothed |-> s.y2_smoothed[ch][k],
                                    n2 |-> s.n2[ch][k],
                                    n2_initial |-> IF s.n2_initial.some
                                                   THEN s.n2_initial.v[ch][k]
                                                   ELSE F32Zero,
                                    y2 |-> y2[ch][k]],
                        LAMBDA b : update_bin(s, b))]), LAMBDA bins :
            [s EXCEPT
               !.y2_smoothed = [ch \in chs |-> Eager([k \in Bins |-> bins[ch][k].y2_smoothed])],
               !.n2 = [ch \in chs |-> Eager([k \in Bins |-> bins[ch][k].n2])],
               !.n2_counter = IF s.n2_initial.some THEN @ + 1 ELSE @,
               !.n2_initial =
                   IF keep
                   THEN Some([ch \in chs |->
                                 Eager([k \in Bins |-> bins[ch][k].n2_initial])])
                   ELSE None])

\* N2 chosen whether or not N2_initial exists.
chosen_n2_AlwaysN2(s, ch) == s.n2[ch]

\* "Choose N2 estimate to use".
chosen_n2(s, ch) == IF s.n2_initial.some THEN s.n2_initial.v[ch] ELSE s.n2[ch]

RECURSIVE generate_channels(_, _)
\* The loop over the channels from ch on: generate_comfort_noise for each,
\* the seed passing from one to the next.
generate_channels(s, ch) ==
    IF ch >= s.num_capture_channels THEN s
    ELSE Let(generate_comfort_noise(chosen_n2(s, ch), s.seed,
                                    s.lower_band_noise[ch], s.upper_band_noise[ch]),
             LAMBDA g :
                 generate_channels(
                     [s EXCEPT !.seed = g.seed,
                               !.lower_band_noise[ch] = g.lower_band_noise,
                               !.upper_band_noise[ch] = g.upper_band_noise,
                               !.panicked = @ \/ g.panic], ch + 1))

\* compute with the estimates updated whatever saturated_capture is.
ComfortNoiseGenerator_compute_IgnoreSaturation(s, saturated_capture, capture_spectrum) ==
    Let(update_estimates(s, capture_spectrum), LAMBDA u : generate_channels(u, 0))

\* ComfortNoiseGenerator::compute
ComfortNoiseGenerator_compute(s, saturated_capture, capture_spectrum) ==
    Let(IF saturated_capture THEN s ELSE update_estimates(s, capture_spectrum),
        LAMBDA u : generate_channels(u, 0))

(***************************************************************************)
(* sonora-agc2, rnn_vad: SpectralFeaturesExtractor (spectral_features.rs). *)
(* The FFT, the spectral correlator, the log spectrum and the DCT belong   *)
(* to other modules: a frame pair is given by what they make of it (band   *)
(* energies, cepstra, cross-correlation).  Arrays are functions on         *)
(* 0 .. n - 1.                                                             *)
(***************************************************************************)
SILENCE_THRESHOLD == F32(0, 122, 2348810)

OPUS_BANDS_24K_HZ == 22
NUM_BANDS == 22
NUM_LOWER_BANDS == 6
CEPSTRAL_COEFFS_HISTORY_SIZE == 3

\* 12.0, 4.0, 1.3, 2.1, 3.0 and f32::MAX (0.9 is F32_NINE_TENTHS)
F32_TWELVE == F32(0, 130, 4194304)
F32_FOUR == F32(0, 129, 0)
F32_CORR_C0 == F32(0, 127, 2516582)
F32_VARIABILITY_OFFSET == F32(0, 128, 419430)
F32_THREE == F32(0, 128, 4194304)
F32_MAX == F32(0, 254, 8388607)

Delays == 0 .. CEPSTRAL_COEFFS_HISTORY_SIZE - 1

\* RingBuffer<NUM_BANDS, CEPSTRAL_COEFFS_HISTORY_SIZE>: zeroed, the next
\* push goes to slot tail.
RingBuffer_default ==
    [buffer |-> [i \in Delays |-> [k \in 0 .. NUM_BANDS - 1 |-> F32Zero]], tail |-> 0]

RingBuffer_push(rb, new_values) ==
    [buffer |-> [rb.buffer EXCEPT ![rb.tail] = new_values],
     tail |-> (rb.tail + 1) % CEPSTRAL_COEFFS_HISTORY_SIZE]

\* The array pushed delay pushes before the latest one.
RingBuffer_get_array_view(rb, delay) ==
    rb.buffer[(rb.tail + CEPSTRAL_COEFFS_HISTORY_SIZE - 1 - delay)
                  % CEPSTRAL_COEFFS_HISTORY_SIZE]

\* SymmetricMatrixBuffer<CEPSTRAL_COEFFS_HISTORY_SIZE>: a value for every
\* pair of different delays, zeroed.
SymmetricMatrixBuffer_default == [d1 \in Delays |-> [d2 \in Delays |-> F32Zero]]

\* push: every held pair grows one push older, values[i] is the new value
\* for the pair (0, i + 1).
SymmetricMatrixBuffer_push(mb, values) ==
    [d1 \in Delays |-> [d2 \in Delays |->
        IF d1 = d2 THEN F32Zero
        ELSE IF d1 = 0 THEN values[d2 - 1]
        ELSE IF d2 = 0 THEN values[d1 - 1]
        ELSE mb[d1 - 1][d2 - 1]]]

SymmetricMatrixBuffer_get_value(mb, delay1, delay2) == mb[delay1][delay2]

\* SpectralFeaturesExtractor::default (the window, the FFT and its buffers
\* and the DCT table left out)
SpectralFeaturesExtractor_default ==
    [reference_frame_bands_energy |-> [i \in 0 .. OPUS_BANDS_24K_HZ - 1 |-> F32Zero],
     lagged_frame_bands_energy |-> [i \in 0 .. OPUS_BANDS_24K_HZ - 1 |-> F32Zero],
     bands_cross_corr |-> [i \in 0 .. OPUS_BANDS_24K_HZ - 1 |-> F32Zero],
     cepstral_coeffs_ring_buf |-> RingBuffer_default,
     cepstral_diffs_buf |-> SymmetricMatrixBuffer_default,
     output |-> None]

\* compute_avg_and_derivatives
compute_avg_and_derivatives(s) ==
    LET curr == RingBuffer_get_array_view(s.cepstral_coeffs_ring_buf, 0)
        prev1 == RingBuffer_get_array_view(s.cepstral_coeffs_ring_buf, 1)
        prev2 == RingBuffer_get_array_view(s.cepstral_coeffs_ring_buf, 2)
    IN  [average |-> [i \in 0 .. NUM_LOWER_BANDS - 1 |->
                         f32_add(f32_add(curr[i], prev1[i]), prev2[i])],
         first_derivative |-> [i \in 0 .. NUM_LOWER_BANDS - 1 |->
                         f32_sub(curr[i], prev2[i])],
         second_derivative |-> [i \in 0 .. NUM_LOWER_BANDS - 1 |->
                         f32_add(f32_sub(curr[i], f32_mul(F32_TWO, prev1[i])), prev2[i])]]

\* The normalisation of compute_normalized_cepstral_correlation, on the
\* cross-correlation the spectral correlator has computed.
normalized_cross_corr(s, cross_corr) ==
    [i \in 0 .. OPUS_BANDS_24K_HZ - 1 |->
        f32_div(cross_corr[i],
                f32_sqrt(f32_add(F32_THOUSANDTH,
                                 f32_mul(s.reference_frame_bands_energy[i],
                                         s.lagged_frame_bands_energy[i]))))]

\* The correction of the first two coefficients of a cepstrum.
corrected_cepstrum(c, c0, c1) ==
    [k \in DOMAIN c |-> IF k = 0 THEN f32_sub(c[k], c0)
                        ELSE IF k = 1 THEN f32_sub(c[k], c1) ELSE c[k]]

RECURSIVE min_dist(_, _, _, _)
\* The inner loop of compute_variability from delay2 on.
min_dist(mb, delay1, delay2, acc) ==
    IF delay2 >= CEPSTRAL_COEFFS_HISTORY_SIZE THEN acc
    ELSE min_dist(mb, delay1, delay2 + 1,
                  IF delay1 = delay2 THEN acc
                  ELSE f32_min(acc, SymmetricMatrixBuffer_get_value(mb, delay1, delay2)))

\* compute_variability
compute_variability(s) ==
    f32_sub(f32_div(sum_range([d \in Delays |-> min_dist(s.cepstral_diffs_buf, d, 0, F32_MAX)],
                              0, CEPSTRAL_COEFFS_HISTORY_SIZE - 1, F32Zero),
                    F32_THREE),
            F32_VARIABILITY_OFFSET)

\* The squared distance of two cepstra, added up band by band.
squared_distance(a, b) ==
    sum_range([k \in 0 .. NUM_BANDS - 1 |->
                  f32_mul(f32_sub(a[k], b[k]), f32_sub(a[k], b[k]))],
              0, NUM_BANDS - 1, F32Zero)

\* update_cepstral_difference_stats, called after the push of the cepstrum
update_cepstral_difference_stats(s, new_cepstral_coeffs) ==
    [s EXCEPT !.cepstral_diffs_buf =
        SymmetricMatrixBuffer_push(@,
            [i \in 0 .. CEPSTRAL_COEFFS_HISTORY_SIZE - 2 |->
                squared_distance(new_cepstral_coeffs,
                    RingBuffer_get_array_view(s.cepstral_coeffs_ring_buf, i + 1))])]

\* The part of check_silence_compute_features after the silence check.
compute_features(s, frames) ==
    Let(corrected_cepstrum(frames.log_cepstrum, F32_TWELVE, F32_FOUR), LAMBDA cepstrum :
    Let(update_cepstral_difference_stats(
            [s EXCEPT !.lagged_frame_bands_energy = frames.lagged_bands_energy,
                      !.cepstral_coeffs_ring_buf = RingBuffer_push(@, cepstrum)],
            cepstrum), LAMBDA u :
    Let(compute_avg_and_derivatives(u), LAMBDA ad :
        [u EXCEPT
            !.bands_cross_corr = normalized_cross_corr(u, frames.cross_corr),
            !.output = Some(
                [higher_bands_cepstrum |->
                     [i \in 0 .. NUM_BANDS - NUM_LOWER_BANDS - 1 |->
                         cepstrum[NUM_LOWER_BANDS + i]],
                 average |-> ad.average,
                 first_derivative |-> ad.first_derivative,
                 second_derivative |-> ad.second_derivative,
                 bands_cross_correlation |->
                     corrected_cepstrum(frames.cross_cepstrum, F32_CORR_C0,
                                        F32_NINE_TENTHS),
                 variability |-> compute_variability(u)])])))

\* The silence check left out.
check_silence_compute_features_NoSilenceCheck(s, frames) ==
    compute_features([s EXCEPT !.reference_frame_bands_energy =
                                   frames.reference_bands_energy], frames)

\* check_silence_compute_features: the extractor after the call, its return
\* value in output.
check_silence_compute_features(s, frames) ==
    Let([s EXCEPT !.reference_frame_bands_energy = frames.reference_bands_energy],
        LAMBDA u :
    Let(sum_range(u.reference_frame_bands_energy, 0, OPUS_BANDS_24K_HZ - 1, F32Zero),
        LAMBDA tot_energy :
        IF F32Lt(tot_energy, SILENCE_THRESHOLD) THEN [u EXCEPT !.output = None]
        ELSE compute_features(u, frames)))

(***************************************************************************)
(* Input configurations: the default configuration with one group of       *)
(* fields overridden.  A group is a set of fields that validate relates to *)
(* one another; every other field is handled independently of the rest.    *)
(***************************************************************************)
UsizeLarge == 2000000000

LengthFields ==
    {"filter__refined__length_blocks", "filter__refined_initial__length_blocks",
     "filter__coarse__length_blocks", "filter__coarse_initial__length_blocks",
     "erle__num_sections"}

LengthInputs == (0 .. MaxLenBlocks) \cup {12, 13}

UsizeInputs ==
    (0 .. MaxLenBlocks) \cup
    {4, 8, 64, 65, 66, 100, 101, 1000, 1001, 1024, 1025, 5000, 5001,
     100000, 100001, UsizeLarge}

I32Inputs ==
    {I32Min, -1, 0, 1, 5, 62, 63, 64, 65, 250, 251, 10000, 10001,
     250000, 250001, I32Max}

F32Inputs ==
    {F32NaN, F32Inf, F32NegInf, F32Zero, F32NegZero,
     F32One,
     F32(1, 127, 0),          \* -1.0
     F32(0, 126, 0),          \* 0.5
     F32(0, 127, 4194304),    \* 1.5
     F32(0, 129, 0),          \* 4.0
     F32(0, 144, 4411392),    \* 200000.0
     F32(1, 134, 7995392),    \* -250.0
     F32(0, 226, 4846282)}    \* 1.0e30

\* The fields TransparentMode::create and LegacyTransparentMode::new read.
CreateGroup ==
    {"ep_strength__bounded_erl", "echo_removal_control__transparent_mode",
     "echo_removal_control__linear_and_stable_echo_path"}

Groups ==
    {{"filter__refined__length_blocks", "filter__refined_initial__length_blocks",
      "erle__num_sections"},
     {"filter__coarse__length_blocks", "filter__coarse_initial__length_blocks"},
     {"erle__min", "erle__max_l", "erle__max_h"},
     {"suppressor__last_lf_band", "suppressor__first_hf_band"},
     {"suppressor__subband_nearend_detection__subband1__low",
      "suppressor__subband_nearend_detection__subband1__high"},
     {"suppressor__subband_nearend_detection__subband2__low",
      "suppressor__subband_nearend_detection__subband2__high"},
     {"suppressor__high_frequency_suppression__limiting_gain_band",
      "suppressor__high_frequency_suppression__bands_in_limiting_gain"},
     {"delay__down_sampling_factor", "erle__min"},
     CreateGroup}
    \cup {{f} : f \in UsizeFields \cup I32Fields \cup F32Fields}

\* The values tried for field f.
Inputs(f) ==
    IF f \in LengthFields THEN LengthInputs
    ELSE IF f \in UsizeFields THEN UsizeInputs
    ELSE IF f \in I32Fields THEN I32Inputs
    ELSE IF f \in F32Fields THEN F32Inputs
    ELSE IF f = "echo_removal_control__transparent_mode" THEN {"Legacy", "Hmm"}
    ELSE BOOLEAN

RECURSIVE Overrides(_, _)
\* All configs obtained from c by giving each field of g one of its inputs.
Overrides(c, g) ==
    IF g = {} THEN {c}
    ELSE LET f == CHOOSE x \in g : TRUE
         IN  UNION {{[d EXCEPT ![f] = v] : v \in Inputs(f)} : d \in Overrides(c, g \ {f})}

\* No update has been fed to the detector yet.
NoRun == [streaks |-> << 0 >>, idle |-> 0, resets |-> 0]

(***************************************************************************)
(* Spec: a caller builds a config and validates it repeatedly.             *)
(***************************************************************************)
Init ==
    /\ \E g \in Groups \ {CreateGroup} : cfg \in Overrides(DefaultConfig, g)
    /\ prev_cfg = cfg
    /\ rets = << >>
    /\ panicked = FALSE
    /\ overflowed = FALSE
    /\ tm = NotCreated
    /\ run = NoRun
    /\ sfx = NotCreated
    /\ gen = NotCreated
    /\ cng = NotCreated
    /\ conv = NotCreated
    /\ spe = NotCreated
    /\ fir = NotCreated
    /\ est = NotCreated

\* cfg.validate()
Validate ==
    /\ calls < MaxCalls
    /\ ~panicked
    /\ \E r \in {validate(cfg)} :
           /\ cfg' = r.c
           /\ rets' = Append(rets, r.ok)
           /\ panicked' = r.panic
           /\ overflowed' = (overflowed \/ r.overflow)
    /\ prev_cfg' = cfg
    /\ UNCHANGED << tm, run, est, fir, spe, conv, cng, gen, sfx >>

Next == Validate

Spec == Init /\ [][Next]_vars

(***************************************************************************)
(* SpecHmm: a detector is created from a config and fed updates.  The      *)
(* updates with active render come in streaks of equal convergence input;  *)
(* run.streaks holds the streak lengths, the odd ones being the streaks    *)
(* with any_coarse_filter_converged = false.  run.idle counts the updates  *)
(* without active render.                                                  *)
(***************************************************************************)
\* Lengths of the two streaks of tests::hmm_deactivates_with_convergence.
HmmNonConvergedBlocks == 10000
HmmConvergedBlocks == 100
\* Streaks off that test's path are at most MaxMix long.
MaxMix == 5
\* Number of streaks and of updates without active render.
MaxStreaks == 3
MaxIdle == 1
\* Number of reset calls.
MaxResets == 1

StreakCap(k) == IF k % 2 = 1 THEN HmmNonConvergedBlocks ELSE HmmConvergedBlocks

\* The current streak is one of the test's two, and the streak before it has
\* the length used in the test.
OnTestPath(streaks) ==
    /\ Len(streaks) <= 2
    /\ \A i \in 1 .. Len(streaks) - 1 : streaks[i] = StreakCap(i)

\* The streak of the latest update is one with converged = TRUE.
InConvergedStreak(streaks) == Len(streaks) % 2 = 0

\* The streaks after an update with active render, or << >> when the update
\* sequence is outside the bounds.  The test's long streaks are fed to a
\* detector that has not been reset.
RunAfter(r, converged) ==
    LET streaks == r.streaks
        k == Len(streaks)
        cur == streaks[k]
    IN  IF converged = InConvergedStreak(streaks)
        THEN IF cur < (IF r.resets = 0 /\ OnTestPath(streaks)
                       THEN StreakCap(k) ELSE MaxMix)
             THEN [streaks EXCEPT ![k] = cur + 1]
             ELSE << >>
        ELSE IF k < MaxStreaks /\ (cur <= MaxMix \/ cur = StreakCap(k))
             THEN Append(streaks, 1)
             ELSE << >>

InitHmm ==
    /\ cfg \in Overrides(DefaultConfig, CreateGroup)
    /\ prev_cfg = cfg
    /\ rets = << >>
    /\ panicked = FALSE
    /\ overflowed = FALSE
    /\ tm = NotCreated
    /\ run = NoRun
    /\ sfx = NotCreated
    /\ gen = NotCreated
    /\ cng = NotCreated
    /\ conv = NotCreated
    /\ spe = NotCreated
    /\ fir = NotCreated
    /\ est = NotCreated

\* TransparentMode::create(&cfg)
Create ==
    /\ tm = NotCreated
    /\ tm' = TransparentMode_create(cfg)
    /\ UNCHANGED << cfg, prev_cfg, rets, panicked, overflowed, run, est, fir, spe, conv, cng, gen, sfx >>

\* hmm.update(any_coarse_filter_converged, active_render)
HmmUpdate ==
    /\ tm.kind = "Hmm"
    /\ \E any_coarse_filter_converged \in BOOLEAN, active_render \in BOOLEAN :
          /\ IF active_render
             THEN /\ RunAfter(run, any_coarse_filter_converged) # << >>
                  /\ run' = [run EXCEPT !.streaks =
                                RunAfter(run, any_coarse_filter_converged)]
             ELSE /\ run.idle < MaxIdle
                  /\ run' = [run EXCEPT !.idle = run.idle + 1]
          /\ tm' = HmmTransparentMode_update(tm, any_coarse_filter_converged,
                                             active_render)
    /\ UNCHANGED << cfg, prev_cfg, rets, panicked, overflowed, est, fir, spe, conv, cng, gen, sfx >>

\* hmm.reset()
HmmReset ==
    /\ tm.kind = "Hmm"
    /\ run.resets < MaxResets
    /\ tm' = HmmTransparentMode_reset(tm)
    /\ run' = [streaks |-> << 0 >>, idle |-> 0, resets |-> run.resets + 1]
    /\ UNCHANGED << cfg, prev_cfg, rets, panicked, overflowed, est, fir, spe, conv, cng, gen, sfx >>

NextHmm == Create \/ HmmUpdate \/ HmmReset

SpecHmm == InitHmm /\ [][NextHmm]_vars

(***************************************************************************)
(* SpecLegacy: a Legacy detector is created and fed updates.  The updates  *)
(* come in segments of one repeated TransparentModeState, and a reset      *)
(* call ends a segment.  run records the segment, the number of updates    *)
(* with render and without saturation since creation or the last reset,    *)
(* and whether an update since creation has reported a converged filter.   *)
(***************************************************************************)
TransparentModeState(delay, consistent, converged, diverged, render, saturated) ==
    [filter_delay_blocks |-> delay,
     any_filter_consistent |-> consistent,
     any_filter_converged |-> converged,
     any_coarse_filter_converged |-> converged,
     all_filters_diverged |-> diverged,
     active_render |-> render,
     saturated_capture |-> saturated]

\* No render; render; render with saturated capture; a converged filter; a
\* consistent filter with a delay below 5; a consistent but diverged filter
\* with a delay of 5.
LegacyInputs ==
    {TransparentModeState(5, FALSE, FALSE, FALSE, FALSE, FALSE),
     TransparentModeState(5, FALSE, FALSE, FALSE, TRUE, FALSE),
     TransparentModeState(5, FALSE, FALSE, FALSE, TRUE, TRUE),
     TransparentModeState(5, FALSE, TRUE, FALSE, TRUE, FALSE),
     TransparentModeState(4, TRUE, FALSE, FALSE, TRUE, FALSE),
     TransparentModeState(5, TRUE, FALSE, TRUE, TRUE, FALSE)}

\* A segment is at most two blocks longer than the 6 s of the activation
\* test; the input changes after at most MaxLegacyMix updates or one update
\* past one of the thresholds 50, 5 s and 6 s.
LegacyLongest == 6 * NUM_BLOCKS_PER_SECOND + 2
LegacySwitchPoints ==
    {50 + 1, 5 * NUM_BLOCKS_PER_SECOND + 1, 6 * NUM_BLOCKS_PER_SECOND + 1}
MaxLegacyMix == 1
MaxSegments == 3
MaxLegacyResets == 1

NoLegacyRun ==
    [segments |-> 0, len |-> 0, input |-> {}, strong |-> 0, converged |-> FALSE,
     updates |-> 0, resets |-> 0]

InitLegacy ==
    /\ cfg \in Overrides(DefaultConfig, CreateGroup)
    /\ prev_cfg = cfg
    /\ rets = << >>
    /\ panicked = FALSE
    /\ overflowed = FALSE
    /\ tm = NotCreated
    /\ run = NoLegacyRun
    /\ sfx = NotCreated
    /\ gen = NotCreated
    /\ cng = NotCreated
    /\ conv = NotCreated
    /\ spe = NotCreated
    /\ fir = NotCreated
    /\ est = NotCreated

\* TransparentMode::create(&cfg)
CreateLegacy ==
    /\ tm = NotCreated
    /\ tm' = TransparentMode_create(cfg)
    /\ UNCHANGED << cfg, prev_cfg, rets, panicked, overflowed, run, est, fir, spe, conv, cng, gen, sfx >>

\* legacy.update(&state)
LegacyUpdate ==
    /\ tm.kind = "Legacy"
    /\ \E state \in LegacyInputs :
          /\ IF run.input = {state}
             THEN /\ run.len < (IF run.segments <= 2 THEN LegacyLongest
                                ELSE MaxLegacyMix)
                  /\ run' = [run EXCEPT
                        !.len = @ + 1,
                        !.updates = @ + 1,
                        !.strong = @ + (IF state.active_render /\ ~state.saturated_capture
                                        THEN 1 ELSE 0),
                        !.converged = @ \/ state.any_filter_converged]
             ELSE /\ run.segments < MaxSegments
                  /\ run.len <= MaxLegacyMix \/ run.len \in LegacySwitchPoints
                  /\ run' = [run EXCEPT
                        !.segments = @ + 1,
                        !.len = 1,
                        !.updates = @ + 1,
                        !.input = {state},
                        !.strong = @ + (IF state.active_render /\ ~state.saturated_capture
                                        THEN 1 ELSE 0),
                        !.converged = @ \/ state.any_filter_converged]
          /\ tm' = LegacyTransparentMode_update(tm, state)
    /\ UNCHANGED << cfg, prev_cfg, rets, panicked, overflowed, est, fir, spe, conv, cng, gen, sfx >>

\* legacy.reset()
LegacyReset ==
    /\ tm.kind = "Legacy"
    /\ run.resets < MaxLegacyResets
    /\ run.segments < MaxSegments
    /\ run.len <= MaxLegacyMix \/ run.len \in LegacySwitchPoints
    /\ tm' = LegacyTransparentMode_reset(tm)
    /\ run' = [run EXCEPT !.segments = @ + 1, !.len = 0, !.input = {},
                          !.strong = 0, !.resets = @ + 1]
    /\ UNCHANGED << cfg, prev_cfg, rets, panicked, overflowed, est, fir, spe, conv, cng, gen, sfx >>

NextLegacy == CreateLegacy \/ LegacyUpdate \/ LegacyReset

SpecLegacy == InitLegacy /\ [][NextLegacy]_vars

(***************************************************************************)
(* SpecErle: a SubbandErleEstimator for two capture channels is built from *)
(* a validated config and fed updates, with resets between.  An update's   *)
(* input is a pair of spectra profiles, one per channel, and the converged *)
(* flags; the updates come in segments of one repeated input.  run.win[ch] *)
(* lists the profiles of the blocks of channel ch's current window.        *)
(***************************************************************************)
NumCaptureChannels == 2

\* 500.0 * 1000.0 * 1000.0, that times 9.0, that divided by 10.0, the first
\* times 100.0 (the spectra of the tests), and 1.0.
X2_STRONG == F32(0, 155, 7236392)
Y2_ECHO == F32(0, 159, 400454)
E2_ECHO == F32(0, 155, 5673891)
Y2_LARGE == F32(0, 162, 3818423)

\* Spectra profiles: x2, y2 and e2 of a block, bin by bin.
\*   "Echo":   erle_increases_with_echo_signal (a ratio of 10)
\*   "Large":  erle_bounded_by_max (a ratio far above every maximum)
\*   "Low":    a ratio below 1 with render below the energy threshold
\*   "Drop":   a ratio below 1 with strong render
\*   "Mixed":  "Large" on even bins, "Drop" on bins 1 mod 4, no error power
\*             on bins 3 mod 4
Profiles == {"Echo", "Large", "Low", "Drop", "Mixed"}

ProfileOf(p, k) ==
    IF p = "Mixed"
    THEN IF k % 2 = 0 THEN "Large" ELSE IF k % 4 = 1 THEN "Drop" ELSE "NoError"
    ELSE p

ProfileX2(p) == [k \in Bins |-> IF ProfileOf(p, k) = "Low" THEN F32Zero ELSE X2_STRONG]

ProfileY2(p) ==
    [k \in Bins |->
        LET q == ProfileOf(p, k)
        IN  IF q = "Echo" THEN Y2_ECHO
            ELSE IF q = "Large" THEN Y2_LARGE
            ELSE F32One]

ProfileE2(p) ==
    [k \in Bins |->
        LET q == ProfileOf(p, k)
        IN  IF q = "Echo" THEN E2_ECHO
            ELSE IF q = "Large" THEN F32One
            ELSE IF q = "NoError" THEN F32Zero
            ELSE E2_ECHO]

\* The inputs of an update: the render profile is that of channel 0.
ErleInputs ==
    {[p |-> << "Echo", "Large" >>, converged |-> << TRUE, TRUE >>],
     [p |-> << "Large", "Drop" >>, converged |-> << TRUE, FALSE >>],
     [p |-> << "Low", "Echo" >>, converged |-> << TRUE, TRUE >>],
     [p |-> << "Drop", "Mixed" >>, converged |-> << FALSE, TRUE >>],
     [p |-> << "Mixed", "Low" >>, converged |-> << TRUE, TRUE >>],
     [p |-> << "Echo", "Echo" >>, converged |-> << FALSE, FALSE >>]}

\* The profile and the convergence flag of channel ch in the input in: the
\* channels beyond the second repeat the first two.
InputProfile(in, ch) == in.p[(ch % 2) + 1]
InputConverged(in, ch) == in.converged[(ch % 2) + 1]

\* A segment has at most two windows and a block; the input changes after
\* at most MaxErleMix updates, or at the end of a window or one update later.
ErleLongest == 2 * POINTS_TO_ACCUMULATE + 1
ErleSwitchPoints == {POINTS_TO_ACCUMULATE, POINTS_TO_ACCUMULATE + 1}
MaxErleMix == 1
MaxErleSegments == 2
MaxErleResets == 1

\* The configs the estimator is built from: validated ones.
ErleConfigs ==
    {validate(c).c :
        c \in {DefaultConfig,
               [DefaultConfig EXCEPT !["erle__min"] = F32(0, 144, 4411392),
                                     !["erle__onset_detection"] = FALSE],
               [DefaultConfig EXCEPT !["erle__max_l"] = F32NaN,
                                     !["erle__max_h"] = F32(0, 226, 4846282)]}}

NoErleRun ==
    [segments |-> 0, len |-> 0, input |-> {}, resets |-> 0, updates |-> 0,
     win |-> [ch \in 0 .. NumCaptureChannels - 1 |-> << >>],
     completed |-> [ch \in 0 .. NumCaptureChannels - 1 |-> FALSE]]

InitErle ==
    /\ cfg \in ErleConfigs
    /\ prev_cfg = cfg
    /\ rets = << >>
    /\ panicked = FALSE
    /\ overflowed = FALSE
    /\ tm = NotCreated
    /\ run = NoErleRun
    /\ sfx = NotCreated
    /\ gen = NotCreated
    /\ cng = NotCreated
    /\ conv = NotCreated
    /\ spe = NotCreated
    /\ fir = NotCreated
    /\ est = NotCreated

\* SubbandErleEstimator::new(&cfg, 2)
ErleNew ==
    /\ est = NotCreated
    /\ est' = SubbandErleEstimator_new(cfg, NumCaptureChannels)
    /\ UNCHANGED << cfg, prev_cfg, rets, panicked, overflowed, tm, run, fir, spe, conv, cng, gen, sfx >>

\* The window of a channel after a block: a block of a converged channel
\* (its own profile p and the render profile x) joins the window, or starts
\* a new one when the window has 6 blocks.
WinAfter(win, in) ==
    [ch \in DOMAIN win |->
        LET block == [p |-> InputProfile(in, ch), x |-> InputProfile(in, 0)]
        IN  IF ~InputConverged(in, ch) THEN win[ch]
            ELSE IF Len(win[ch]) = 6 THEN << block >>
            ELSE Append(win[ch], block)]

\* est.update(&x2, &y2, &e2, &converged_filters)
ErleUpdate ==
    /\ est # NotCreated
    /\ \E in \in ErleInputs :
          /\ IF run.input = {in}
             THEN run.len < (IF run.segments <= 2 THEN ErleLongest ELSE MaxErleMix)
             ELSE /\ run.segments < MaxErleSegments
                  /\ run.len <= MaxErleMix \/ run.len \in ErleSwitchPoints
          /\ run' = [run EXCEPT
                !.segments = IF run.input = {in} THEN @ ELSE @ + 1,
                !.len = IF run.input = {in} THEN @ + 1 ELSE 1,
                !.input = {in},
                !.updates = @ + 1,
                !.win = WinAfter(@, in),
                !.completed = [ch \in DOMAIN @ |->
                                 InputConverged(in, ch)
                                 /\ Len(WinAfter(run.win, in)[ch]) = 6]]
          /\ \E r \in {SubbandErleEstimator_update(est,
                          ProfileX2(InputProfile(in, 0)),
                          [ch \in 0 .. NumCaptureChannels - 1 |->
                              ProfileY2(InputProfile(in, ch))],
                          [ch \in 0 .. NumCaptureChannels - 1 |->
                              ProfileE2(InputProfile(in, ch))],
                          [ch \in 0 .. NumCaptureChannels - 1 |->
                              InputConverged(in, ch)])} :
                est' = r
    /\ UNCHANGED << cfg, prev_cfg, rets, panicked, overflowed, tm, fir, spe, conv, cng, gen, sfx >>

\* est.reset()
ErleReset ==
    /\ est # NotCreated
    /\ run.resets < MaxErleResets
    /\ run.segments < MaxErleSegments
    /\ run.len <= MaxErleMix \/ run.len \in ErleSwitchPoints
    /\ est' = SubbandErleEstimator_reset(est)
    /\ run' = [run EXCEPT !.segments = @ + 1, !.len = 0, !.input = {},
                          !.resets = @ + 1,
                          !.win = [ch \in DOMAIN @ |-> << >>],
                          !.completed = [ch \in DOMAIN @ |-> FALSE]]
    /\ UNCHANGED << cfg, prev_cfg, rets, panicked, overflowed, tm, fir, spe, conv, cng, gen, sfx >>

NextErle == ErleNew \/ ErleUpdate \/ ErleReset

SpecErle == InitErle /\ [][NextErle]_vars

(***************************************************************************)
(* compute_erl on a growing list of partitions (SpecErl).                  *)
(***************************************************************************)
\* n as f32, for n below 2^24.
usize_as_f32(n) == f32_round(0, n, 0, FALSE)

\* 16777216.0 (2^24)
F32_TWO_POW_24 == F32(0, 151, 0)

\* A partition of h2:
\*   "One", "Two", "Three": filled with 1.0, 2.0, 3.0 (erl_sums_partitions)
\*   "Ramp":  bin k holds k as f32 (erl_single_partition)
\*   "Big":   filled with 2^24, to which adding 1.0 changes nothing
PartitionNames == {"One", "Two", "Three", "Ramp", "Big"}

\* The value of an integer-valued partition at bin k.
PartitionInt(name, k) ==
    IF name = "One" THEN 1
    ELSE IF name = "Two" THEN 2
    ELSE IF name = "Three" THEN 3
    ELSE k

Partition(name) ==
    IF name = "Big" THEN Filled(F32_TWO_POW_24)
    ELSE Eager([k \in Bins |-> usize_as_f32(PartitionInt(name, k))])

\* The contents of erl before the first call: 1.0 in every bin
\* (erl_empty_partitions), or k in bin k.
ErlBuffers == {Filled(F32One), Partition("Ramp")}

MaxPartitions == 3
\* The calls of compute_erl are counted up to MaxErlCalls.
MaxErlCalls == 2

NoErlRun == [partitions |-> << >>, computed |-> FALSE, calls |-> 0]

InitErl ==
    /\ cfg = DefaultConfig
    /\ prev_cfg = cfg
    /\ rets = << >>
    /\ panicked = FALSE
    /\ overflowed = FALSE
    /\ tm = NotCreated
    /\ run = NoErlRun
    /\ sfx = NotCreated
    /\ gen = NotCreated
    /\ cng = NotCreated
    /\ est = NotCreated
    /\ fir \in {[h2 |-> << >>, erl |-> b] : b \in ErlBuffers}
    /\ spe = NotCreated
    /\ conv = NotCreated

\* h2.push(partition)
PushPartition ==
    /\ Len(fir.h2) < MaxPartitions
    /\ \E name \in PartitionNames :
          /\ fir' = [fir EXCEPT !.h2 = Append(@, Partition(name))]
          /\ run' = [run EXCEPT !.partitions = Append(@, name), !.computed = FALSE]
    /\ UNCHANGED << cfg, prev_cfg, rets, panicked, overflowed, tm, est, spe, conv, cng, gen, sfx >>

\* compute_erl(SimdBackend::Scalar, &h2, &mut erl)
ComputeErl ==
    /\ ~run.computed
    /\ \E r \in {compute_erl(fir.h2, fir.erl)} : fir' = [fir EXCEPT !.erl = r]
    /\ run' = [run EXCEPT !.computed = TRUE,
                          !.calls = IF @ < MaxErlCalls THEN @ + 1 ELSE @]
    /\ UNCHANGED << cfg, prev_cfg, rets, panicked, overflowed, tm, est, spe, conv, cng, gen, sfx >>

NextErl == PushPartition \/ ComputeErl

SpecErl == InitErl /\ [][NextErl]_vars

(***************************************************************************)
(* A Config converted to a WapConfig and back (SpecFfi).                   *)
(***************************************************************************)
\* Values of the f32 fields: 1.0, 2.5, 0.0, -50.0 and NaN.
FfiF32Inputs ==
    {F32One, F32(0, 128, 2097152), F32Zero, F32(1, 132, 4718592), F32NaN}

\* Values of AnalogMicGainEmulation::initial_level (u8): 0..MaxLevel, 128
\* and 255.
MaxLevel == 1
LevelInputs == (0 .. MaxLevel) \cup {128, 255}

Pipelines ==
    [maximum_internal_processing_rate : {"Rate32kHz", "Rate48kHz"},
     multi_channel_render : BOOLEAN,
     multi_channel_capture : BOOLEAN,
     capture_downmix_method : {"AverageChannels", "UseFirstChannel"}]

OptionOf(S) == {None} \cup {Some(x) : x \in S}

PreAmplifiers == OptionOf([fixed_gain_factor : FfiF32Inputs])

CaptureLevelAdjustments ==
    OptionOf([pre_gain_factor : {F32One, F32(0, 127, 4194304), F32NaN},
              post_gain_factor : {F32One, F32(0, 126, 5033165)},
              analog_mic_gain_emulation : OptionOf([initial_level : LevelInputs])])

HighPassFilters == OptionOf([apply_in_full_band : BOOLEAN])

EchoCancellers == OptionOf([enforce_high_pass_filtering : BOOLEAN])

NoiseSuppressions ==
    OptionOf([level : {"Low", "Moderate", "High", "VeryHigh"},
              analyze_linear_aec_output_when_available : BOOLEAN])

\* The adaptive digital settings of config_roundtrip_all_enabled
\* (headroom 3.0, max gain 40.0), and settings with five different values.
AdaptiveDigitals ==
    {AdaptiveDigital_default,
     [AdaptiveDigital_default EXCEPT !.headroom_db = F32(0, 128, 4194304),
                                     !.max_gain_db = F32(0, 132, 2097152)],
     [headroom_db |-> F32One,
      max_gain_db |-> F32(0, 128, 2097152),
      initial_gain_db |-> F32Zero,
      max_gain_change_db_per_second |-> F32NaN,
      max_output_noise_level_dbfs |-> F32(1, 127, 0)]}

\* Fixed gains of 0.0, 6.0 and 2.5 dB.
GainController2s ==
    OptionOf([input_volume_controller : BOOLEAN,
              adaptive_digital : OptionOf(AdaptiveDigitals),
              fixed_digital : [gain_db : {F32Zero, F32(0, 129, 4194304),
                                          F32(0, 128, 2097152)}]])

\* The config of config_roundtrip_all_enabled.
Config_all_enabled ==
    [pipeline |-> [maximum_internal_processing_rate |-> "Rate48kHz",
                   multi_channel_render |-> TRUE,
                   multi_channel_capture |-> TRUE,
                   capture_downmix_method |-> "UseFirstChannel"],
     pre_amplifier |-> Some([fixed_gain_factor |-> F32(0, 128, 2097152)]),
     capture_level_adjustment |->
         Some([pre_gain_factor |-> F32(0, 127, 4194304),
               post_gain_factor |-> F32(0, 126, 5033165),
               analog_mic_gain_emulation |-> Some([initial_level |-> 128])]),
     high_pass_filter |-> Some([apply_in_full_band |-> TRUE]),
     echo_canceller |-> Some([enforce_high_pass_filtering |-> TRUE]),
     noise_suppression |->
         Some([level |-> "VeryHigh",
               analyze_linear_aec_output_when_available |-> FALSE]),
     gain_controller2 |->
         Some([input_volume_controller |-> FALSE,
               adaptive_digital |->
                   Some([AdaptiveDigital_default EXCEPT
                           !.headroom_db = F32(0, 128, 4194304),
                           !.max_gain_db = F32(0, 132, 2097152)]),
               fixed_digital |-> [gain_db |-> F32(0, 129, 4194304)]])]

\* The configs converted: the default one and the all-enabled one, with one
\* sub-configuration replaced by any of its values.
FfiConfigs ==
    UNION {
        {[base EXCEPT !.pipeline = x] : x \in Pipelines}
        \cup {[base EXCEPT !.pre_amplifier = x] : x \in PreAmplifiers}
        \cup {[base EXCEPT !.capture_level_adjustment = x] :
                 x \in CaptureLevelAdjustments}
        \cup {[base EXCEPT !.high_pass_filter = x] : x \in HighPassFilters}
        \cup {[base EXCEPT !.echo_canceller = x] : x \in EchoCancellers}
        \cup {[base EXCEPT !.noise_suppression = x] : x \in NoiseSuppressions}
        \cup {[base EXCEPT !.gain_controller2 = x] : x \in GainController2s}
        : base \in {Config_default, Config_all_enabled}}

InitFfi ==
    /\ cfg = DefaultConfig
    /\ prev_cfg = cfg
    /\ rets = << >>
    /\ panicked = FALSE
    /\ overflowed = FALSE
    /\ tm = NotCreated
    /\ run = NoRun
    /\ sfx = NotCreated
    /\ gen = NotCreated
    /\ cng = NotCreated
    /\ est = NotCreated
    /\ fir = NotCreated
    /\ spe = NotCreated
    /\ conv \in {[stage |-> "rust", config |-> c] : c \in FfiConfigs}

\* let c_config = WapConfig::from_rust(&rust_config);
FromRust ==
    /\ conv.stage = "rust"
    /\ conv' = [stage |-> "c", config |-> conv.config,
                c_config |-> WapConfig_from_rust(conv.config)]
    /\ UNCHANGED << cfg, prev_cfg, rets, panicked, overflowed, tm, run, est, fir, spe, cng, gen, sfx >>

\* let roundtrip = c_config.to_rust();
ToRust ==
    /\ conv.stage = "c"
    /\ conv' = [stage |-> "roundtrip", config |-> conv.config,
                c_config |-> conv.c_config,
                roundtrip |-> WapConfig_to_rust(conv.c_config)]
    /\ UNCHANGED << cfg, prev_cfg, rets, panicked, overflowed, tm, run, est, fir, spe, cng, gen, sfx >>

NextFfi == FromRust \/ ToRust

SpecFfi == InitFfi /\ [][NextFfi]_vars

(***************************************************************************)
(* SpeechProbabilityEstimator under streaks of frames (SpecSpe).  What the *)
(* signal model estimator returns for a frame is chosen among the models   *)
(* and prior models below.                                                 *)
(***************************************************************************)
\* The values avg_log_lrt takes, repeated along the bins.
AvgLogLrtValues ==
    << F32(0, 0, 0), F32(0, 127, 0), F32(1, 127, 0), F32(0, 129, 0),
       F32(1, 133, 3145728), F32(0, 133, 4718592), F32(1, 133, 4718592),
       F32(0, 134, 4718592) >>

AvgLogLrtSpread == Eager([k \in NsBins |-> AvgLogLrtValues[(k % 8) + 1]])

\* SignalModel: the three features and avg_log_lrt.
\*   "Speech":  every feature on the speech side of 0.5, tanh saturated
\*   "Pause":   every feature on the pause side of 0.5, tanh saturated
\*   "Neutral": every feature and avg_log_lrt at 0.5 (the initial model)
\*   "Mid":     features near 0.5, tanh unsaturated
SignalModel(name) ==
    IF name = "Speech" THEN
        [lrt |-> F32(0, 128, 6291456), spectral_flatness |-> F32(1, 128, 2097152),
         spectral_diff |-> F32(0, 128, 6291456), avg_log_lrt |-> AvgLogLrtSpread]
    ELSE IF name = "Pause" THEN
        [lrt |-> F32(1, 127, 0), spectral_flatness |-> F32_TWO,
         spectral_diff |-> F32(1, 127, 0), avg_log_lrt |-> AvgLogLrtSpread]
    ELSE IF name = "Neutral" THEN
        [lrt |-> F32_HALF, spectral_flatness |-> F32_HALF,
         spectral_diff |-> F32_HALF, avg_log_lrt |-> Eager([k \in NsBins |-> F32_HALF])]
    ELSE
        [lrt |-> F32(0, 126, 2097152), spectral_flatness |-> F32One,
         spectral_diff |-> F32Zero, avg_log_lrt |-> AvgLogLrtSpread]

\* 1/3 as f32
F32_THIRD == F32(0, 125, 2796203)

\* PriorSignalModel: thresholds at 0.5, the weight shared among the
\* features in use.
PriorSignalModel(name) ==
    LET w == IF name = "Lrt" THEN << F32One, F32Zero, F32Zero >>
             ELSE IF name = "LrtFlat" THEN << F32_HALF, F32_HALF, F32Zero >>
             ELSE IF name = "LrtDiff" THEN << F32_HALF, F32Zero, F32_HALF >>
             ELSE << F32_THIRD, F32_THIRD, F32_THIRD >>
    IN  [lrt |-> F32_HALF, flatness_threshold |-> F32_HALF,
         template_diff_threshold |-> F32_HALF,
         lrt_weighting |-> w[1], flatness_weighting |-> w[2],
         difference_weighting |-> w[3]]

SpeInputs ==
    { << "Speech", "Lrt" >>, << "Pause", "Lrt" >>, << "Neutral", "LrtFlat" >>,
      << "Mid", "All" >>, << "Speech", "All" >>, << "Pause", "LrtDiff" >> }

\* A streak of equal frames runs up to SpeLongest updates; the input may
\* change after at most MaxSpeMix updates or at the end of a full streak.
SpeLongest == 140
MaxSpeMix == 1
MaxSpeSegments == 2

NoSpeRun == [segments |-> 0, len |-> 0, input |-> {}, updates |-> 0]

InitSpe ==
    /\ cfg = DefaultConfig
    /\ prev_cfg = cfg
    /\ rets = << >>
    /\ panicked = FALSE
    /\ overflowed = FALSE
    /\ tm = NotCreated
    /\ run = NoSpeRun
    /\ sfx = NotCreated
    /\ gen = NotCreated
    /\ cng = NotCreated
    /\ est = NotCreated
    /\ fir = NotCreated
    /\ spe = SpeechProbabilityEstimator_default
    /\ conv = NotCreated

\* est.update(&analysis)
SpeUpdate ==
    /\ \E in \in SpeInputs :
          /\ IF run.input = {in}
             THEN /\ run.len < (IF run.segments <= 2 THEN SpeLongest ELSE MaxSpeMix)
                  /\ run' = [run EXCEPT !.len = @ + 1, !.updates = @ + 1]
             ELSE /\ run.segments < MaxSpeSegments
                  /\ run.len <= MaxSpeMix \/ run.len = SpeLongest
                  /\ run' = [run EXCEPT !.segments = @ + 1, !.len = 1,
                                        !.updates = @ + 1, !.input = {in}]
          /\ \E r \in {SpeechProbabilityEstimator_update(
                          spe, SignalModel(in[1]), PriorSignalModel(in[2]))} :
                spe' = r
    /\ UNCHANGED << cfg, prev_cfg, rets, panicked, overflowed, tm, est, fir, conv, cng, gen, sfx >>

NextSpe == SpeUpdate

SpecSpe == InitSpe /\ [][NextSpe]_vars

(***************************************************************************)
(* SpecCng: a ComfortNoiseGenerator built from a validated config is fed   *)
(* compute calls in streaks of one repeated input.  run.updates counts the *)
(* calls, run.unsaturated those with saturated_capture = false.            *)
(***************************************************************************)
\* 100.0, 1.0e4 and 4.0e6
Y2_QUIET == F32(0, 133, 4718592)
Y2_MID == F32(0, 140, 1851392)
Y2_LOUD == F32(0, 148, 7611392)

\* A capture spectrum:
\*   "Quiet": 100.0 on every bin, below the initial N2
\*   "Loud":  4.0e6 on every bin, above the initial N2
\*   "Zero":  0.0 on every bin
\*   "Tilt":  1.0e4 below bin 32, 4.0e6 on bin 32, 100.0 above
CaptureSpectrum(p) ==
    IF p = "Quiet" THEN Filled(Y2_QUIET)
    ELSE IF p = "Loud" THEN Filled(Y2_LOUD)
    ELSE IF p = "Zero" THEN Filled(F32Zero)
    ELSE Eager([k \in Bins |->
                  IF k < K_FFT_LENGTH_BY_2_PLUS_1_BY_2 THEN Y2_MID
                  ELSE IF k = K_FFT_LENGTH_BY_2_PLUS_1_BY_2 THEN Y2_LOUD
                  ELSE Y2_QUIET])

\* The inputs of compute: saturated_capture and a spectrum per channel.
CngInputs ==
    {[saturated |-> FALSE, p |-> << "Quiet", "Tilt" >>],
     [saturated |-> FALSE, p |-> << "Loud", "Zero" >>],
     [saturated |-> TRUE, p |-> << "Zero", "Quiet" >>]}

\* The config the generator is built from: the validated default one, whose
\* noise floor the estimates reach on the "Zero" spectrum.
CngConfigs == {validate(DefaultConfig).c}

\* The first streak runs up to CngLongest calls, a later one up to
\* MaxCngTail; the input changes after at most MaxCngMix calls of a streak
\* or at a switch point.
CngLongest == 1002
CngSwitchPoints == {51, 999}
MaxCngMix == 1
MaxCngTail == 2
MaxCngSegments == 3

NoCngRun == [segments |-> 0, len |-> 0, input |-> {}, updates |-> 0, unsaturated |-> 0]

InitCng ==
    /\ cfg \in CngConfigs
    /\ prev_cfg = cfg
    /\ rets = << >>
    /\ panicked = FALSE
    /\ overflowed = FALSE
    /\ tm = NotCreated
    /\ run = NoCngRun
    /\ sfx = NotCreated
    /\ est = NotCreated
    /\ fir = NotCreated
    /\ spe = NotCreated
    /\ conv = NotCreated
    /\ cng = NotCreated
    /\ gen = NotCreated

\* ComfortNoiseGenerator::new(&cfg, 2)
CngNew ==
    /\ cng = NotCreated
    /\ cng' = ComfortNoiseGenerator_new(cfg, NumCaptureChannels)
    /\ UNCHANGED << cfg, prev_cfg, rets, panicked, overflowed, tm, run, est, fir, spe, conv, gen, sfx >>

\* cng.compute(saturated_capture, &capture_spectrum, &mut lower, &mut upper)
CngCompute ==
    /\ cng # NotCreated
    /\ \E in \in CngInputs :
          /\ IF run.input = {in}
             THEN run.len < (IF run.segments <= 1 THEN CngLongest ELSE MaxCngTail)
             ELSE /\ run.segments < MaxCngSegments
                  /\ run.len <= MaxCngMix \/ run.len \in CngSwitchPoints
          /\ run' = [run EXCEPT
                !.segments = IF run.input = {in} THEN @ ELSE @ + 1,
                !.len = IF run.input = {in} THEN @ + 1 ELSE 1,
                !.input = {in},
                !.updates = @ + 1,
                !.unsaturated = IF in.saturated THEN @ ELSE @ + 1]
          /\ \E r \in {ComfortNoiseGenerator_compute(cng, in.saturated,
                          [ch \in 0 .. NumCaptureChannels - 1 |->
                              CaptureSpectrum(InputProfile(in, ch))])} :
                cng' = r
    /\ UNCHANGED << cfg, prev_cfg, rets, panicked, overflowed, tm, est, fir, spe, conv, gen, sfx >>

NextCng == CngNew \/ CngCompute

SpecCng == InitCng /\ [][NextCng]_vars

(***************************************************************************)
(* SpecGen: generate_comfort_noise called on its own, with a noise power   *)
(* spectrum and a u32 seed chosen by the caller (the seed is a &mut u32,   *)
(* so it may hold any 32-bit value, also one of 2^31 or more), then again  *)
(* on the seed and the bands the call before has left.                     *)
(***************************************************************************)
\* 66 * 66 as f32.
N2_SPIKE == F32(0, 139, 532480)

GenProfiles == {"Zero", "Flat", "Tilt", "Spike32"}

\* Noise power spectra: all bins 0, all bins 1e6, the tilted spectrum of
\* CaptureSpectrum, and 4356 on bin 32 alone.
GenSpectrum(p) ==
    IF p = "Spike32" THEN Eager([k \in Bins |-> IF k = 32 THEN N2_SPIKE ELSE F32Zero])
    ELSE IF p = "Flat" THEN Filled(F32_MILLION)
    ELSE CaptureSpectrum(p)

\* 42 (the seed of ComfortNoiseGenerator::new), 0, 2^31 - 1, 2^31, 2^32 - 1
\* and two values in between.
GenSeeds ==
    { U32(0, 42), U32(0, 0), U32(32767, 65535), U32(32768, 0), U32(65535, 65535),
      U32(40000, 12345), U32(1234, 56789) }

MaxGenCalls == 4

InitGen ==
    /\ cfg = DefaultConfig
    /\ prev_cfg = cfg
    /\ rets = << >>
    /\ panicked = FALSE
    /\ overflowed = FALSE
    /\ tm = NotCreated
    /\ run = NoCngRun
    /\ sfx = NotCreated
    /\ est = NotCreated
    /\ fir = NotCreated
    /\ spe = NotCreated
    /\ conv = NotCreated
    /\ cng = NotCreated
    /\ \E p \in GenProfiles : \E seed \in GenSeeds :
          gen = [n2 |-> p, first_seed |-> seed, seed |-> seed,
                 lower_band_noise |-> FftData_default,
                 upper_band_noise |-> FftData_default,
                 panicked |-> FALSE, calls |-> 0]

\* generate_comfort_noise(&n2, &mut seed, &mut lower, &mut upper, &vector_math)
Generate ==
    /\ gen # NotCreated
    /\ gen.calls < MaxGenCalls
    /\ ~gen.panicked
    /\ \E p \in GenProfiles :
          \E r \in {generate_comfort_noise(GenSpectrum(p), gen.seed,
                        gen.lower_band_noise, gen.upper_band_noise)} :
              gen' = [gen EXCEPT !.n2 = p,
                                 !.seed = r.seed,
                                 !.lower_band_noise = r.lower_band_noise,
                                 !.upper_band_noise = r.upper_band_noise,
                                 !.panicked = r.panic,
                                 !.calls = @ + 1]
    /\ UNCHANGED << cfg, prev_cfg, rets, panicked, overflowed, tm, run, est, fir, spe, conv, cng, sfx >>

NextGen == Generate

SpecGen == InitGen /\ [][NextGen]_vars

(***************************************************************************)
(* SpecSfx: a SpectralFeaturesExtractor is fed frame pairs.  A frame is    *)
(* given by its band energies: none, just below the threshold in one band, *)
(* two bands of 0.02 (0.04 together), 0.5 in every band, and a NaN.        *)
(***************************************************************************)
\* 0.02 and the f32 just below 0.04
F32_FIFTIETH == F32(0, 121, 2348810)
F32_BELOW_THRESHOLD == F32(0, 122, 2348809)

SfxProfiles == {"Zero", "Faint", "Split", "Tone", "NaN"}

BandsEnergy(p) ==
    [i \in 0 .. OPUS_BANDS_24K_HZ - 1 |->
        IF p = "Faint" THEN (IF i = 0 THEN F32_BELOW_THRESHOLD ELSE F32Zero)
        ELSE IF p = "Split" THEN (IF i <= 1 THEN F32_FIFTIETH ELSE F32Zero)
        ELSE IF p = "Tone" THEN F32_HALF
        ELSE IF p = "NaN" THEN (IF i = 5 THEN F32NaN ELSE F32Zero)
        ELSE F32Zero]

\* What compute_smoothed_log_magnitude_spectrum and compute_dct give for
\* the reference frame.
LogCepstrum(p) ==
    [k \in 0 .. NUM_BANDS - 1 |->
        IF p = "Split" THEN F32One
        ELSE IF p = "Tone" THEN (IF k % 2 = 0 THEN F32_TEN ELSE F32_HALF)
        ELSE IF p = "NaN" THEN F32NaN
        ELSE F32Zero]

\* A pair of frames: the band energies of both, the cepstrum of the
\* reference frame, their cross-correlation per band and its DCT.
FramePair(p, q) ==
    [reference |-> p,
     reference_bands_energy |-> BandsEnergy(p),
     lagged_bands_energy |-> BandsEnergy(q),
     log_cepstrum |-> LogCepstrum(p),
     cross_corr |-> [i \in 0 .. OPUS_BANDS_24K_HZ - 1 |->
                        IF q = "Tone" THEN F32_HALF ELSE F32Zero],
     cross_cepstrum |-> [i \in 0 .. NUM_LOWER_BANDS - 1 |->
                        IF q = "Tone" THEN F32_TENTH ELSE F32Zero]]

SfxInputs == {FramePair(p, q) : p \in SfxProfiles, q \in {"Zero", "Tone"}}

MaxSfxCalls == 3

NoSfxRun == [calls |-> 0, input |-> {}, silent |-> 0]

InitSfx ==
    /\ cfg = DefaultConfig
    /\ prev_cfg = cfg
    /\ rets = << >>
    /\ panicked = FALSE
    /\ overflowed = FALSE
    /\ tm = NotCreated
    /\ run = NoSfxRun
    /\ sfx = NotCreated
    /\ est = NotCreated
    /\ fir = NotCreated
    /\ spe = NotCreated
    /\ conv = NotCreated
    /\ cng = NotCreated
    /\ gen = NotCreated

\* SpectralFeaturesExtractor::default()
SfxNew ==
    /\ sfx = NotCreated
    /\ sfx' = SpectralFeaturesExtractor_default
    /\ UNCHANGED << cfg, prev_cfg, rets, panicked, overflowed, tm, run, est, fir, spe, conv, cng, gen >>

\* extractor.check_silence_compute_features(&reference_frame, &lagged_frame)
SfxCheck ==
    /\ sfx # NotCreated
    /\ run.calls < MaxSfxCalls
    /\ \E in \in SfxInputs :
          /\ \E r \in {check_silence_compute_features(sfx, in)} : sfx' = r
          /\ run' = [run EXCEPT !.calls = @ + 1, !.input = {in},
                                !.silent = IF in.reference \in {"Zero", "Faint"}
                                           THEN @ + 1 ELSE @]
    /\ UNCHANGED << cfg, prev_cfg, rets, panicked, overflowed, tm, est, fir, spe, conv, cng, gen >>

NextSfx == SfxNew \/ SfxCheck

SpecSfx == InitSfx /\ [][NextSfx]_vars

(***************************************************************************)
(* Properties of EchoCanceller3Config::validate.                           *)
(***************************************************************************)
NumericFields == UsizeFields \cup I32Fields \cup F32Fields

LimitOps == {"limit_f32", "limit_usize", "limit_i32"}

\* Field f is the target of a limit_f32 / limit_usize / limit_i32 call.
HasRange(f) ==
    \E i \in 1 .. Len(ValidateSteps) :
        ValidateSteps[i].f = f /\ ValidateSteps[i].op \in LimitOps

\* The [min, max] range of that call, its bounds read from config c.
RangeOf(c, f) ==
    LET s == ValidateSteps[CHOOSE i \in 1 .. Len(ValidateSteps) :
                 ValidateSteps[i].f = f /\ ValidateSteps[i].op \in LimitOps]
    IN  [min |-> BoundValue(c, s.lo).v, max |-> BoundValue(c, s.hi).v]

InRange(c, f) ==
    LET r == RangeOf(c, f)
    IN  IF f \in F32Fields
        THEN F32Le(r.min, c[f]) /\ F32Le(c[f], r.max)
        ELSE r.min <= c[f] /\ c[f] <= r.max

\* C1: validate is idempotent: a second (and any later) call on the same
\* config leaves every field unchanged and returns true, whatever the first
\* call was given (out-of-range, negative, infinite and NaN values included).
C1_ValidateIdempotent ==
    calls >= 2 => (~panicked /\ ret = TRUE /\ cfg = prev_cfg)

\* A second call has returned after a first call that had to change something.
C1_Witness ==
    /\ calls = 2
    /\ rets[1] = FALSE
    /\ ~panicked

\* C2: validate returns true if and only if it changed no field: the config
\* after the call is field-for-field identical to the config before the call
\* exactly when the call returned true.
C2_ReturnIffUnchanged ==
    (calls >= 1 /\ ~panicked) => (ret = TRUE <=> cfg = prev_cfg)

\* A call replaced a NaN erle.max_l by its range minimum and returned false.
C2_Witness ==
    /\ calls = 1
    /\ ret = FALSE
    /\ is_nan(prev_cfg.erle__max_l)
    /\ cfg.erle__max_l = F32One

\* C3: validate never panics: every clamp is called with min <= max (the
\* bounds computed from other fields included) and no bound computation
\* overflows.
C3_ValidateNeverPanics ==
    ~panicked /\ ~overflowed

\* validate has returned on a config whose refined length was 0 while
\* erle.num_sections was clamped against it.
C3_Witness ==
    /\ calls = 1
    /\ ~panicked
    /\ prev_cfg.filter__refined__length_blocks = 0
    /\ prev_cfg.erle__num_sections = 2
    /\ cfg.erle__num_sections = 1

\* C4: after validate every numeric parameter lies inside its declared
\* finite [min, max] range, and a parameter that was NaN before the call
\* equals its range minimum -- for every numeric field, none excepted.
\* (A field without a limit call is only required to be finite here.)
C4_EveryNumericFieldInRange ==
    (calls >= 1 /\ ~panicked) =>
        \A f \in NumericFields :
            /\ HasRange(f) => InRange(cfg, f)
            /\ f \in F32Fields =>
                  /\ is_finite(cfg[f])
                  /\ is_nan(prev_cfg[f]) =>
                        (HasRange(f) /\ cfg[f] = RangeOf(cfg, f).min)

\* C5: after validate the cross-field orderings hold: initial filter lengths
\* do not exceed the full lengths, 1 <= erle.num_sections <= refined length,
\* first_hf_band > last_lf_band, and each subband region has high >= low.
C5_CrossFieldInvariants ==
    (calls >= 1 /\ ~panicked) =>
        /\ cfg.filter__refined_initial__length_blocks
              <= cfg.filter__refined__length_blocks
        /\ cfg.filter__coarse_initial__length_blocks
              <= cfg.filter__coarse__length_blocks
        /\ 1 <= cfg.erle__num_sections
        /\ cfg.erle__num_sections <= cfg.filter__refined__length_blocks
        /\ cfg.suppressor__first_hf_band > cfg.suppressor__last_lf_band
        /\ cfg.suppressor__subband_nearend_detection__subband1__high
              >= cfg.suppressor__subband_nearend_detection__subband1__low
        /\ cfg.suppressor__subband_nearend_detection__subband2__high
              >= cfg.suppressor__subband_nearend_detection__subband2__low

\* validate has returned on a config whose initial refined length exceeded
\* the refined length.
C5_Witness ==
    /\ calls = 1
    /\ ~panicked
    /\ prev_cfg.filter__refined_initial__length_blocks
          > prev_cfg.filter__refined__length_blocks
    /\ prev_cfg.filter__refined__length_blocks >= 1

\* C6: after validate 1 <= erle.min <= min(erle.max_l, erle.max_h); when the
\* erle.min passed in exceeds min(max_l, max_h) (of the config passed in, or
\* of the validated config) the resulting erle.min is exactly
\* min(max_l, max_h) of the validated config and the call returns false.
C6_ErleMinCapped ==
    (calls >= 1 /\ ~panicked) =>
        LET cap == f32_min(cfg.erle__max_l, cfg.erle__max_h)
            cap_in == f32_min(prev_cfg.erle__max_l, prev_cfg.erle__max_h)
        IN  /\ F32Le(F32One, cfg.erle__min)
            /\ F32Le(cfg.erle__min, cap)
            /\ (F32Gt(prev_cfg.erle__min, cap_in) \/ F32Gt(prev_cfg.erle__min, cap))
                  => (cfg.erle__min = cap /\ ret = FALSE)

\* The default config with down_sampling_factor = 3 and erle.min = 200000
\* has been validated: erle.min is 1.5, down_sampling_factor is 4.
C6_Witness ==
    /\ calls = 1
    /\ prev_cfg = [DefaultConfig EXCEPT !.delay__down_sampling_factor = 3,
                                        !.erle__min = F32(0, 144, 4411392)]
    /\ cfg.erle__min = F32(0, 127, 4194304)
    /\ cfg.delay__down_sampling_factor = 4
    /\ ret = FALSE

\* C7: after validate down_sampling_factor is 4 or 8: an input of 4 or 8 is
\* left unchanged, any other input is reset to 4 and the call returns false.
C7_DownSamplingFactor ==
    (calls >= 1 /\ ~panicked) =>
        /\ cfg.delay__down_sampling_factor \in {4, 8}
        /\ prev_cfg.delay__down_sampling_factor \in {4, 8}
              => cfg.delay__down_sampling_factor = prev_cfg.delay__down_sampling_factor
        /\ prev_cfg.delay__down_sampling_factor \notin {4, 8}
              => (cfg.delay__down_sampling_factor = 4 /\ ret = FALSE)

\* A down_sampling_factor of 3 has been reset to 4.
C7_Witness ==
    /\ calls = 1
    /\ prev_cfg.delay__down_sampling_factor = 3
    /\ cfg.delay__down_sampling_factor = 4

(***************************************************************************)
(* Properties of TransparentMode.                                          *)
(***************************************************************************)
\* C8: create returns no detector if and only if ep_strength.bounded_erl is
\* set, whatever the requested variant; otherwise the detector is of exactly
\* the requested variant and is inactive before any update.
C8_CreateVariant ==
    tm.kind # "NotCreated" =>
        /\ tm.kind = "None" <=> cfg.ep_strength__bounded_erl
        /\ ~cfg.ep_strength__bounded_erl =>
              /\ tm.kind = cfg.echo_removal_control__transparent_mode
              /\ run = NoRun => ~active(tm)

\* create has returned None although the Hmm variant was requested.
C8_Witness ==
    /\ tm.kind = "None"
    /\ cfg.ep_strength__bounded_erl
    /\ cfg.echo_removal_control__transparent_mode = "Hmm"

\* C9: a fresh HMM detector is active after 10000 consecutive updates with
\* active render and no converged coarse filter, and inactive after 100
\* further consecutive updates with active render and a converged filter.
C9_HmmActivatesThenDeactivates ==
    tm.kind = "Hmm" =>
        /\ run.streaks = << HmmNonConvergedBlocks >> => active(tm)
        /\ run.streaks = << HmmNonConvergedBlocks, HmmConvergedBlocks >>
              => ~active(tm)

\* The 10000 + 100 updates have been made without any other update between.
C9_Witness ==
    /\ tm.kind = "Hmm"
    /\ run = [streaks |-> << HmmNonConvergedBlocks, HmmConvergedBlocks >>,
              idle |-> 0, resets |-> 0]
    /\ ~active(tm)

\* 0.999 and 0.001: how close to 1 and to 0 the posterior is to come.
NearOne == F32(0, 126, 8371831)
NearZero == F32(0, 117, 201327)

C11_HmmIdleUpdateNoChange ==
    [][(tm.kind = "Hmm" /\ run'.idle = run.idle + 1) => tm' = tm]_vars

\* An update without active render has been made to a detector that is
\* active, with a posterior away from the initial one.
C11_Witness ==
    /\ tm.kind = "Hmm"
    /\ run.idle = 1
    /\ run.streaks = << HmmNonConvergedBlocks >>
    /\ active(tm)

\* The thresholds of the hysteresis: 0.95 and 0.5.
HysteresisOn == F32(0, 126, 7549747)
HysteresisOff == F32(0, 126, 0)

\* C17: after every update with active render the activation flag is true
\* if the new posterior is above 0.95, false if it is below 0.5 and unchanged
\* otherwise; in every state an active detector has a posterior >= 0.5 and an
\* inactive one a posterior <= 0.95; a new detector is inactive with
\* posterior 0.2.
C17_HmmHysteresis ==
    /\ [][(tm.kind = "Hmm" /\ run'.streaks # run.streaks /\ run'.resets = run.resets) =>
            tm'.transparency_activated =
                IF F32Gt(tm'.prob_transparent_state, HysteresisOn) THEN TRUE
                ELSE IF F32Lt(tm'.prob_transparent_state, HysteresisOff) THEN FALSE
                ELSE tm.transparency_activated]_vars
    /\ [](tm.kind = "Hmm" =>
            /\ active(tm) => ~F32Lt(tm.prob_transparent_state, HysteresisOff)
            /\ ~active(tm) => ~F32Gt(tm.prob_transparent_state, HysteresisOn)
            /\ run = NoRun =>
                  /\ ~active(tm)
                  /\ tm.prob_transparent_state = F32(0, 124, 5033165))

\* The detector is still active with the posterior inside the band: it has
\* come down from above 0.95 and not yet passed 0.5.
C17_Witness ==
    /\ tm.kind = "Hmm"
    /\ active(tm)
    /\ F32Lt(tm.prob_transparent_state, HysteresisOn)
    /\ F32Gt(tm.prob_transparent_state, HysteresisOff)

RECURSIVE HmmFeed(_, _, _, _)
\* The detector t after the updates with active render of streaks i.. of
\* the given streaks (the even ones being the converged ones), j updates of
\* streak i being already made.
HmmFeed(t, streaks, i, j) ==
    IF i > Len(streaks) THEN t
    ELSE IF j >= streaks[i] THEN HmmFeed(t, streaks, i + 1, 0)
    ELSE CHOOSE r \in
            {HmmFeed(u, streaks, i, j + 1) :
                u \in {HmmTransparentMode_update(t, i % 2 = 0, TRUE)}} : TRUE

\* C20: after reset the HMM detector is inactive with posterior 0.2, from
\* every state it is called in: it is in the very state of a new detector,
\* and after the updates that follow (compared over the first two streaks)
\* it is in the state a new detector is in after the same updates.
C20_HmmResetRestoresInitial ==
    (tm.kind = "Hmm" /\ run.resets >= 1) =>
        /\ run.streaks = << 0 >> =>
              /\ ~active(tm)
              /\ tm.prob_transparent_state = F32(0, 124, 5033165)
              /\ tm = HmmTransparentMode_new
        /\ Len(run.streaks) <= 2 =>
              tm = HmmFeed(HmmTransparentMode_new, run.streaks, 1, 0)

\* A reset detector has since been fed a non-converged and a converged
\* update.
C20_Witness ==
    /\ tm.kind = "Hmm"
    /\ run.resets = 1
    /\ run.streaks = << 1, 1 >>
    /\ ~active(tm)

(***************************************************************************)
(* Properties of LegacyTransparentMode.                                    *)
(***************************************************************************)
\* C12 as stated: if no update since creation has reported a converged
\* filter, then after any update at which the accumulated number of updates
\* with active render and non-saturated capture is at least
\* 6 * NUM_BLOCKS_PER_SECOND, the Legacy detector is active.
C12_LegacyActiveAtSixSeconds ==
    (tm.kind = "Legacy" /\ run.updates >= 1 /\ ~run.converged
       /\ run.strong >= 6 * NUM_BLOCKS_PER_SECOND) => active(tm)

\* C12 amended: if no update since creation has reported a converged filter,
\* then after any update at which the accumulated number of updates with
\* active render and non-saturated capture (since creation or the last
\* reset) is more than 6 * NUM_BLOCKS_PER_SECOND, the Legacy detector is
\* active.
C12_LegacyActiveAfterSixSeconds ==
    (tm.kind = "Legacy" /\ run.updates >= 1 /\ ~run.converged
       /\ run.strong > 6 * NUM_BLOCKS_PER_SECOND) => active(tm)

\* 1501 updates with render and no saturation, none converged, the last of
\* them after updates of another kind.
C12_Witness ==
    /\ tm.kind = "Legacy"
    /\ ~run.converged
    /\ run.strong = 6 * NUM_BLOCKS_PER_SECOND + 1
    /\ run.segments = 2
    /\ active(tm)

\* The filter is recently sane, from the fields after an update.
RecentlySane(t) ==
    IF ~t.sane_filter_observed
    THEN t.capture_block_counter <= 5 * NUM_BLOCKS_PER_SECOND
    ELSE t.active_blocks_since_sane_filter <= 30 * NUM_BLOCKS_PER_SECOND

\* C18: after every update of the Legacy detector, it is inactive whenever
\* finite ERL is recently detected, and whenever the filter is recently sane
\* and convergence has recently occurred during activity.
C18_LegacyInactiveConditions ==
    (tm.kind = "Legacy" /\ run.updates >= 1) =>
        /\ tm.finite_erl_recently_detected => ~active(tm)
        /\ (RecentlySane(tm) /\ tm.recent_convergence_during_activity)
              => ~active(tm)

\* Finite ERL alone keeps the detector inactive: more than 6 s of strong
\* render are accumulated and the filter is not recently sane.
C18_Witness ==
    /\ tm.kind = "Legacy"
    /\ tm.finite_erl_recently_detected
    /\ ~RecentlySane(tm)
    /\ tm.strong_not_saturated_render_blocks > 6 * NUM_BLOCKS_PER_SECOND
    /\ ~active(tm)

(***************************************************************************)
(* Properties of SubbandErleEstimator (under SpecErle).                    *)
(***************************************************************************)
\* C13: after any sequence of update and reset calls on an estimator built
\* from a validated config, for every capture channel ch and every bin k of
\* 0..64, erle.min <= erle[ch][k] <= max_erle[k], max_erle[k] being
\* erle.max_l in the lower half of the bins and erle.max_h in the upper
\* half, and erle_unbounded[ch][k] <= 100000.
C13_ErleWithinBounds ==
    est # NotCreated =>
        /\ ~est.panicked
        /\ \A ch \in 0 .. NumCaptureChannels - 1 : \A k \in 0 .. 64 :
              /\ F32Le(cfg.erle__min, est.erle[ch][k])
              /\ F32Le(est.erle[ch][k],
                       IF k < 32 THEN cfg.erle__max_l ELSE cfg.erle__max_h)
              /\ F32Le(est.erle_unbounded[ch][k], F32(0, 143, 4411392))

\* The estimate of a channel has been driven to the maximum of each half,
\* the two maxima being different, and the unbounded one to 100000.
C13_Witness ==
    /\ est # NotCreated
    /\ run.updates >= 6
    /\ F32Lt(cfg.erle__max_l, cfg.erle__max_h)
    /\ \E ch \in 0 .. NumCaptureChannels - 1 :
          /\ est.erle[ch][10] = cfg.erle__max_l
          /\ est.erle[ch][40] = cfg.erle__max_h
          /\ est.erle[ch][64] = cfg.erle__max_h
          /\ est.erle_unbounded[ch][10] = F32(0, 143, 4411392)

\* The f32 sum of the sequence xs, added from the left to 0.0.
RECURSIVE SumF32(_)
SumF32(xs) ==
    IF xs = << >> THEN F32Zero
    ELSE Let(SumF32(SubSeq(xs, 1, Len(xs) - 1)), LAMBDA a : f32_add(a, xs[Len(xs)]))

\* The sums of the spectra Spectrum(p) over the blocks of a window, bin by
\* bin.
WindowSum(win, Spectrum(_)) ==
    MapBins(LAMBDA k : [i \in 1 .. Len(win) |-> Spectrum(win[i].p)[k]],
            LAMBDA xs : SumF32(xs))

\* The estimate of a bin after a window win: the smoothing step of
\* update_erle_band from erle towards the ratio of the window's sums.
WindowErle(win, k, erle, min_erle, max_erle) ==
    Let(<< SumF32([i \in 1 .. Len(win) |-> ProfileY2(win[i].p)[k]]),
           SumF32([i \in 1 .. Len(win) |-> ProfileE2(win[i].p)[k]]) >>, LAMBDA s :
        IF ~F32Gt(s[2], F32Zero) THEN erle
        ELSE Let(f32_div(s[1], s[2]), LAMBDA ratio :
             Let(IF ~F32Lt(ratio, erle) THEN F32(0, 122, 5033165)
                 ELSE IF \E i \in 1 .. Len(win) :
                            F32Lt(ProfileX2(win[i].x)[k], X2_BAND_ENERGY_THRESHOLD)
                      THEN F32Zero
                      ELSE F32(0, 123, 5033165), LAMBDA alpha :
             f32_clamp(f32_add(erle, f32_mul(alpha, f32_sub(ratio, erle))),
                       min_erle, max_erle).value)))

\* The bins the ratio of a completed window is compared on.
C19_Bins == {1, 2, 3, 31, 32, 63}

\* C19: for each capture channel the point count is the number of blocks of
\* the current window (0..6; a window holds converged blocks only and
\* consecutive windows share no block), the accumulated y2 and e2 are the
\* sums over exactly the blocks of that window, an update that does not
\* complete a window of 6 leaves erle[ch] and erle_unbounded[ch] unchanged,
\* and one that completes a window moves them towards the ratio of the sums
\* over its 6 blocks.
C19_ErleRecomputedPerWindow ==
    /\ [](est # NotCreated =>
            \A ch \in 0 .. NumCaptureChannels - 1 :
               /\ est.accum_spectra.num_points[ch] = Len(run.win[ch])
               /\ est.accum_spectra.num_points[ch] \in 0 .. 6
               /\ est.accum_spectra.y2[ch] = WindowSum(run.win[ch], ProfileY2)
               /\ est.accum_spectra.e2[ch] = WindowSum(run.win[ch], ProfileE2))
    /\ [][(est # NotCreated /\ run'.updates = run.updates + 1) =>
            \A ch \in 0 .. NumCaptureChannels - 1 :
               IF run'.completed[ch]
               THEN /\ Len(run'.win[ch]) = 6
                    /\ \A k \in C19_Bins :
                          /\ est'.erle[ch][k] =
                                WindowErle(run'.win[ch], k, est.erle[ch][k],
                                           cfg.erle__min,
                                           IF k < 32 THEN cfg.erle__max_l
                                           ELSE cfg.erle__max_h)
                          /\ est'.erle_unbounded[ch][k] =
                                WindowErle(run'.win[ch], k, est.erle_unbounded[ch][k],
                                           cfg.erle__min, F32(0, 143, 4411392))
               ELSE /\ est'.erle[ch] = est.erle[ch]
                    /\ est'.erle_unbounded[ch] = est.erle_unbounded[ch]]_vars

\* A second window of channel 0 has just been completed and has changed the
\* estimate, the first one having changed it too.
C19_Witness ==
    /\ est # NotCreated
    /\ run.updates >= 12
    /\ run.completed[0]
    /\ Len(run.win[0]) = 6
    /\ est.accum_spectra.num_points[0] = 6
    /\ F32Gt(est.erle[0][1], cfg.erle__min)
    /\ F32Lt(est.erle[0][1], cfg.erle__max_l)

(***************************************************************************)
(* Properties of compute_erl (under SpecErl).                              *)
(***************************************************************************)
\* The integer sum of bin k over integer-valued partitions.
RECURSIVE SumInt(_, _)
SumInt(names, k) ==
    IF names = << >> THEN 0
    ELSE PartitionInt(names[1], k) + SumInt(Tail(names), k)

\* C14: after compute_erl, for every bin k of 0..64, erl[k] is the sum over
\* the partitions p of h2[p][k] (the f32 sum in the order of the partitions;
\* the integer sum when the partitions hold small integers), whatever erl
\* held before; with no partition every erl[k] is 0.
C14_ErlIsSumOfPartitions ==
    (fir # NotCreated /\ run.computed) =>
        /\ fir.erl = MapBins(LAMBDA k : [p \in 1 .. Len(fir.h2) |-> fir.h2[p][k]],
                              LAMBDA xs : SumF32(xs))
        /\ DOMAIN fir.erl = 0 .. 64
        /\ \A k \in 0 .. 64 :
           /\ (\A p \in 1 .. Len(run.partitions) :
                   run.partitions[p] \in {"One", "Two", "Three", "Ramp"})
                => fir.erl[k] = usize_as_f32(SumInt(run.partitions, k))
           /\ Len(fir.h2) = 0 => fir.erl[k] = F32Zero

\* A second call has replaced the sums of the first, over three partitions
\* 1.0, 2.0 and 3.0: every bin holds 6.0.
C14_Witness ==
    /\ fir # NotCreated
    /\ run.computed
    /\ run.calls >= 2
    /\ run.partitions = << "One", "Two", "Three" >>
    /\ \A k \in 0 .. 64 : fir.erl[k] = F32(0, 129, 4194304)

(***************************************************************************)
(* Properties of the C API conversions (under SpecFfi).                    *)
(***************************************************************************)
\* C16: WapConfig::from_rust(c).to_rust() is c: every optional
\* sub-configuration is present after the round trip exactly when it was
\* present in c, and every field value is preserved.
C16_ConfigRoundTrip ==
    conv.stage = "roundtrip" =>
        /\ conv.roundtrip.pre_amplifier.some = conv.config.pre_amplifier.some
        /\ conv.roundtrip.capture_level_adjustment.some
              = conv.config.capture_level_adjustment.some
        /\ conv.roundtrip.high_pass_filter.some = conv.config.high_pass_filter.some
        /\ conv.roundtrip.echo_canceller.some = conv.config.echo_canceller.some
        /\ conv.roundtrip.noise_suppression.some = conv.config.noise_suppression.some
        /\ conv.roundtrip.gain_controller2.some = conv.config.gain_controller2.some
        /\ conv.roundtrip = conv.config

\* The all-enabled config, its capture level adjustment replaced by one with
\* an emulated level of 0, has made the round trip.
C16_Witness ==
    /\ conv.stage = "roundtrip"
    /\ conv.config.capture_level_adjustment.some
    /\ conv.config.capture_level_adjustment.v.analog_mic_gain_emulation
          = Some([initial_level |-> 0])
    /\ conv.config.gain_controller2.some
    /\ conv.config.gain_controller2.v.adaptive_digital.some
    /\ conv.config.noise_suppression = Some([level |-> "VeryHigh",
                          analyze_linear_aec_output_when_available |-> FALSE])
    /\ conv.c_config.analog_mic_gain_emulation_initial_level = 0
    /\ conv.c_config.noise_suppression_level = "WapVeryHigh"
    /\ conv.roundtrip.pipeline.maximum_internal_processing_rate = "Rate48kHz"

LegacyResetFields ==
    {"non_converged_sequence_size", "diverged_sequence_size",
     "strong_not_saturated_render_blocks", "recent_convergence_during_activity"}

\* C28: reset of the Legacy detector leaves active() as it was; it sets the
\* non-converged run length back to its initial value, zeroes the diverged
\* run length and the count of strong non-saturated render blocks, clears
\* the recent-convergence flag when the echo path is configured linear and
\* stable (and leaves it otherwise), and leaves every other field unchanged.
C28_LegacyResetKeepsActive ==
    [][(tm.kind = "Legacy" /\ run'.resets = run.resets + 1) =>
          /\ active(tm') = active(tm)
          /\ DOMAIN tm' = DOMAIN tm
          /\ \A f \in DOMAIN tm \ LegacyResetFields : tm'[f] = tm[f]
          /\ tm'.non_converged_sequence_size = BLOCKS_SINCE_CONVERGED_FILTER_INIT
          /\ tm'.diverged_sequence_size = 0
          /\ tm'.strong_not_saturated_render_blocks = 0
          /\ tm'.recent_convergence_during_activity =
                (~tm.linear_and_stable_echo_path
                    /\ tm.recent_convergence_during_activity)]_vars

\* A reset of an active detector that had counted more than 6 s of strong
\* render: the count is back at zero and the detector is still active.
C28_Witness ==
    /\ tm.kind = "Legacy"
    /\ run.resets >= 1
    /\ run.len = 0
    /\ active(tm)
    /\ tm.strong_not_saturated_render_blocks = 0
    /\ tm.capture_block_counter > 6 * NUM_BLOCKS_PER_SECOND

(***************************************************************************)
(* Further properties of SubbandErleEstimator (SpecErle)                   *)
(***************************************************************************)
\* C27: in every state of an estimator built from a validated config, for
\* every channel ch and bin k,
\* erle.min <= erle_onset_compensated[ch][k] <= erle[ch][k]
\*          <= erle_unbounded[ch][k],
\* and the debug_assert of the low-render decrease step has not failed.
C27_ErleOrdering ==
    est # NotCreated =>
        /\ ~est.panicked
        /\ \A ch \in 0 .. NumCaptureChannels - 1 : \A k \in Bins :
              /\ F32Le(cfg.erle__min, est.erle_onset_compensated[ch][k])
              /\ F32Le(est.erle_onset_compensated[ch][k], est.erle[ch][k])
              /\ F32Le(est.erle[ch][k], est.erle_unbounded[ch][k])

\* With onset detection, a bin whose estimate was raised under low render
\* and decreased again in the same update, while the estimate of the upper
\* half is held at its maximum: the four values are strictly ordered.
C27_Witness ==
    /\ est # NotCreated
    /\ cfg.erle__onset_detection
    /\ run.updates >= 2 * POINTS_TO_ACCUMULATE
    /\ \E ch \in 0 .. NumCaptureChannels - 1 :
          /\ est.hold_counters[ch][40] = 0
          /\ F32Lt(cfg.erle__min, est.erle_onset_compensated[ch][40])
          /\ F32Lt(est.erle_onset_compensated[ch][40], est.erle[ch][40])
          /\ est.erle[ch][40] = cfg.erle__max_h
          /\ F32Lt(est.erle[ch][40], est.erle_unbounded[ch][40])

\* C30: an update in which converged_filters[ch] is false leaves erle[ch],
\* erle_unbounded[ch] and channel ch's accumulated y2 and e2, low-render
\* flags and point count unchanged, whatever the other channels get.
C30_NonConvergedChannelUntouched ==
    [][(est # NotCreated /\ run'.updates = run.updates + 1) =>
          \A in \in run'.input : \A ch \in 0 .. NumCaptureChannels - 1 :
              ~InputConverged(in, ch) =>
                  /\ est'.erle[ch] = est.erle[ch]
                  /\ est'.erle_unbounded[ch] = est.erle_unbounded[ch]
                  /\ est'.accum_spectra.y2[ch] = est.accum_spectra.y2[ch]
                  /\ est'.accum_spectra.e2[ch] = est.accum_spectra.e2[ch]
                  /\ est'.accum_spectra.low_render_energy[ch]
                        = est.accum_spectra.low_render_energy[ch]
                  /\ est'.accum_spectra.num_points[ch]
                        = est.accum_spectra.num_points[ch]]_vars

\* The second channel holds a full window and a raised estimate from an
\* earlier segment; in the update just made its filter is not converged
\* while the first channel completed a window of its own.
C30_Witness ==
    /\ est # NotCreated
    /\ run.segments = 2
    /\ \A in \in run.input : ~InputConverged(in, 1) /\ InputConverged(in, 0)
    /\ run.completed[0]
    /\ est.accum_spectra.num_points[1] = POINTS_TO_ACCUMULATE
    /\ F32Lt(cfg.erle__min, est.erle[1][10])
    /\ F32Lt(F32Zero, est.accum_spectra.y2[1][10])

(***************************************************************************)
(* Properties of ComfortNoiseGenerator (SpecCng)                           *)
(***************************************************************************)
\* The bins on which the noise and the update of N2 are compared.
CngBins == {0, 1, 31, 32, 33, 63, 64}

Channels == 0 .. NumCaptureChannels - 1

\* The estimate a state offers for the noise of channel ch.
CurrentEstimate(s, ch) ==
    IF s.n2_initial.some THEN s.n2_initial.v[ch] ELSE s.n2[ch]

\* The band data holds shaped noise of the level given for bin k: the level
\* times an entry of K_SQRT2_SIN in re and times the entry 8 places on in im.
ShapedAt(data, level, k) ==
    \E i \in 1 .. 32 :
        /\ data.re[k] = f32_mul(level, K_SQRT2_SIN[i])
        /\ data.im[k] = f32_mul(level, K_SQRT2_SIN[((i + 7) % 32) + 1])

\* The lower band of a channel is noise shaped by the square root of n2.
LowerNoiseFrom(data, n2) ==
    /\ data.re[0] = F32Zero
    /\ data.re[FFT_LENGTH_BY_2] = F32Zero
    /\ \A k \in CngBins \cap InnerBins : ShapedAt(data, f32_sqrt(n2[k]), k)

\* The step is a compute call with the given saturated_capture.
IsCompute(saturated) ==
    /\ cng # NotCreated
    /\ run'.updates = run.updates + 1
    /\ \A in \in run'.input : in.saturated = saturated

\* C21: a compute call with saturated_capture = true leaves Y2_smoothed,
\* N2, N2_initial (and whether it exists) and the block counter unchanged,
\* and its lower-band noise is shaped by the estimate in use before and
\* after the call.
C21_SaturatedKeepsEstimates ==
    [][IsCompute(TRUE) =>
          /\ cng'.y2_smoothed = cng.y2_smoothed
          /\ cng'.n2 = cng.n2
          /\ cng'.n2_initial = cng.n2_initial
          /\ cng'.n2_counter = cng.n2_counter
          /\ cng'.seed # cng.seed
          /\ \A ch \in Channels :
                LowerNoiseFrom(cng'.lower_band_noise[ch], CurrentEstimate(cng, ch))]_vars

\* A saturated call after 51 non-saturated ones: Y2_smoothed has moved,
\* N2_initial exists and differs from N2, and the noise is not zero.
C21_Witness ==
    /\ cng # NotCreated
    /\ \A in \in run.input : in.saturated
    /\ run.unsaturated = 51
    /\ run.updates = 52
    /\ cng.n2_initial.some
    /\ cng.n2_counter = 51
    /\ F32Lt(F32Zero, cng.y2_smoothed[0][1])
    /\ F32Lt(cng.n2_initial.v[0][1], cng.n2[0][1])
    /\ \E k \in InnerBins : ~is_zero(cng.lower_band_noise[0].re[k])

\* C22 as stated: N2_initial exists after each of the first 1000 compute
\* calls and after none of the later ones.
C22_InitialForThousandCalls ==
    cng # NotCreated =>
        /\ run.updates <= 1000 => cng.n2_initial.some
        /\ run.updates > 1000 => ~cng.n2_initial.some

\* C22 amended: N2_initial exists until the 1000th non-saturated compute
\* call, which discards it: after a call it exists iff fewer than 1000
\* non-saturated calls have been made, the noise of every call is shaped
\* by N2_initial while it exists and by N2 from then on, and once
\* discarded it never reappears.
C22_InitialUntilThousandthUpdate ==
    /\ [](cng # NotCreated =>
             /\ cng.n2_initial.some <=> run.unsaturated < 1000
             /\ cng.n2_counter = (IF run.unsaturated < 1000 THEN run.unsaturated ELSE 1000)
             /\ run.updates >= 1 =>
                   \A ch \in Channels :
                       LowerNoiseFrom(cng.lower_band_noise[ch], CurrentEstimate(cng, ch)))
    /\ [][(cng # NotCreated /\ ~cng.n2_initial.some) => ~cng'.n2_initial.some]_vars

\* 999 non-saturated calls, a saturated one and the 1000th non-saturated
\* call: N2_initial is gone after 1001 calls, N2 is at work.
C22_Witness ==
    /\ cng # NotCreated
    /\ run.unsaturated = 1000
    /\ run.updates = 1001
    /\ ~cng.n2_initial.some
    /\ \E k \in InnerBins : ~is_zero(cng.lower_band_noise[0].re[k])

\* (0.9 * b + 0.1 * a) * 1.0002 if b < a, else a * 1.0002, then the floor.
AsymmetricIir(a, b, floor) ==
    f32_max(IF F32Lt(b, a)
            THEN f32_mul(f32_add(f32_mul(F32_NINE_TENTHS, b), f32_mul(F32_TENTH, a)),
                         F32_N2_GROWTH)
            ELSE f32_mul(a, F32_N2_GROWTH), floor)

\* N2 after a non-saturated call whose number among the non-saturated calls
\* is above the given warm-up is the update of N2 from the new Y2_smoothed;
\* within the warm-up it is N2 (kept at or above the noise floor).
N2UpdatedAfter(warm_up) ==
    IsCompute(FALSE) =>
        \A ch \in Channels : \A k \in CngBins :
            cng'.n2[ch][k] =
                IF run'.unsaturated > warm_up
                THEN AsymmetricIir(cng.n2[ch][k], cng'.y2_smoothed[ch][k],
                                   cng.noise_floor)
                ELSE f32_max(cng.n2[ch][k], cng.noise_floor)

\* C23 as stated: the update of N2 is left out in the first 50
\* non-saturated calls and made in every later one, from the 51st on.
C23_UpdateFromCall51 == [][N2UpdatedAfter(50)]_vars

\* C23 amended: the update of N2 is left out in the first 51 non-saturated
\* calls and made in every later one, from the 52nd on.
C23_UpdateFromCall52 == [][N2UpdatedAfter(51)]_vars

\* The 52nd non-saturated call on a quiet capture: N2 has left its initial
\* value for the first time.
C23_Witness ==
    /\ cng # NotCreated
    /\ run.unsaturated = 52
    /\ cng.n2_counter = 52
    /\ F32Lt(cng.n2[0][1], F32_MILLION)
    /\ F32Lt(cng.y2_smoothed[0][1], cng.n2[0][1])

\* C29: while N2_initial exists, N2_initial[ch][k] <= N2[ch][k] for every
\* channel and bin, from the constructed state on.
C29_InitialBelowN2 ==
    (cng # NotCreated /\ cng.n2_initial.some) =>
        \A ch \in Channels : \A k \in Bins :
            F32Le(cng.n2_initial.v[ch][k], cng.n2[ch][k])

\* N2 has fallen onto N2_initial on a quiet bin (both now equal, below the
\* initial N2) while on a loud bin of the other channel N2 has grown and
\* N2_initial is still below it.
C29_Witness ==
    /\ cng # NotCreated
    /\ cng.n2_initial.some
    /\ run.unsaturated = 54
    /\ cng.n2_initial.v[0][1] = cng.n2[0][1]
    /\ F32Lt(cng.n2[0][1], F32_MILLION)
    /\ F32Lt(cng.n2_initial.v[1][32], cng.n2[1][32])
    /\ F32Lt(F32_MILLION, cng.n2[1][32])

(***************************************************************************)
(* Properties of generate_comfort_noise (SpecGen)                          *)
(***************************************************************************)
\* The step is a call of generate_comfort_noise.
IsGenerate == gen # NotCreated /\ gen'.calls = gen.calls + 1

\* C24: in a call of generate_comfort_noise, whatever u32 the seed holds
\* before it, the seed after each of the 63 steps of the generator is a
\* 31-bit value (below 2^31), the index seed >> 26 is in 0 .. 31 and so is
\* the index shifted by 8, and no table lookup panics.
C24_SeedAndIndexInRange ==
    [][IsGenerate =>
          /\ ~gen'.panicked
          /\ Let(prng_seeds(gen.seed, FFT_LENGTH_BY_2 - 1), LAMBDA seeds :
                 /\ gen'.seed = seeds[FFT_LENGTH_BY_2 - 1]
                 /\ \A j \in 1 .. FFT_LENGTH_BY_2 - 1 :
                       /\ seeds[j].hi \in 0 .. 32767
                       /\ seeds[j].lo \in 0 .. 65535
                       /\ seeds[j].hi \div 1024 \in 0 .. 31
                       /\ (seeds[j].hi \div 1024 + 8) % 32 \in 0 .. 31
                       /\ ~sqrt2_sin(prng_index(seeds[j])).panic
                       /\ ~sqrt2_sin((prng_index(seeds[j]) + 8) % 32).panic)]_vars

\* Two calls from a seed of 2^31 or more: the seed is now below 2^31, its
\* index is one of those whose shifted index wraps around the table, and
\* noise has been written.
C24_Witness ==
    /\ gen # NotCreated
    /\ gen.calls = 2
    /\ gen.first_seed.hi >= 32768
    /\ gen.seed.hi < 32768
    /\ prng_index(gen.seed) >= 24
    /\ ~gen.panicked
    /\ \E k \in InnerBins : ~is_zero(gen.upper_band_noise.im[k])

\* 1 / 32 as f32.
F32_ONE_BY_32 == F32(0, 122, 0)

\* The two bands after a call are shaped, bin by bin, with the same table
\* entries: the lower band at the level sqrt(N2[k]) of the bin, the upper
\* band at the one level given.
UpperBandLevelled(level) ==
    (gen # NotCreated /\ gen.calls >= 1) =>
        /\ gen.upper_band_noise.re[0] = F32Zero
        /\ gen.upper_band_noise.re[FFT_LENGTH_BY_2] = F32Zero
        /\ \A k \in InnerBins :
              \E i \in 1 .. 32 :
                  /\ gen.upper_band_noise.re[k] = f32_mul(level, K_SQRT2_SIN[i])
                  /\ gen.upper_band_noise.im[k] =
                        f32_mul(level, K_SQRT2_SIN[((i + 7) % 32) + 1])
                  /\ gen.lower_band_noise.re[k] =
                        f32_mul(f32_sqrt(GenSpectrum(gen.n2)[k]), K_SQRT2_SIN[i])
                  /\ gen.lower_band_noise.im[k] =
                        f32_mul(f32_sqrt(GenSpectrum(gen.n2)[k]),
                                K_SQRT2_SIN[((i + 7) % 32) + 1])

\* sqrt(N2[k]) for every bin of the spectrum of the last call.
SqrtSpectrum == MapBins(LAMBDA k : GenSpectrum(gen.n2)[k], f32_sqrt)

\* C25 as stated: the level of the upper band is the average of
\* n[k] = sqrt(N2[k]) over the 32 bins k = 33 .. 64.
C25_UpperLevelFromBin33 ==
    UpperBandLevelled(f32_mul(sum_range(SqrtSpectrum, 33, FFT_LENGTH_BY_2, F32Zero),
                              F32_ONE_BY_32))

\* C25 amended: the level of the upper band is the average of
\* n[k] = sqrt(N2[k]) over the 33 bins k = 32 .. 64: their f32 sum, added
\* in index order, times 1/33; the lower band uses the per-bin n[k].
C25_UpperLevelFromBin32 ==
    UpperBandLevelled(f32_mul(sum_range(SqrtSpectrum, 32, FFT_LENGTH_BY_2, F32Zero),
                              K_ONE_BY_NUM_BANDS))

\* A call on the spectrum that is 4356 on bin 32 and 0 elsewhere: the upper
\* band carries noise (level 66 / 33) on bins where the lower band is 0.
C25_Witness ==
    /\ gen # NotCreated
    /\ gen.calls >= 1
    /\ gen.n2 = "Spike32"
    /\ \E k \in InnerBins \ {32} :
          /\ gen.upper_band_noise.re[k] = F32_TWO
          /\ is_zero(gen.lower_band_noise.re[k])

(***************************************************************************)
(* Properties of SpectralFeaturesExtractor (SpecSfx)                       *)
(***************************************************************************)
\* The total band energy of the reference frame of a frame pair: the f32
\* sum of its band energies, in band order.
TotalBandEnergy(in) ==
    sum_range(in.reference_bands_energy, 0, OPUS_BANDS_24K_HZ - 1, F32Zero)

\* One entry has been pushed into the ring buffer: the slot at tail holds
\* the cepstrum, the other slots are as before, tail has moved on by one.
RingPushed(before, after, cepstrum) ==
    /\ after.tail = (before.tail + 1) % CEPSTRAL_COEFFS_HISTORY_SIZE
    /\ after.buffer[before.tail] = cepstrum
    /\ \A i \in Delays \ {before.tail} : after.buffer[i] = before.buffer[i]

\* One entry has been pushed into the difference buffer: the values held
\* are one push older, the values of the newest cepstrum are its squared
\* distances to the older cepstra.
DiffsPushed(before, after, ring, cepstrum) ==
    \A d1, d2 \in Delays :
        d1 < d2 =>
            /\ after[d1][d2] = after[d2][d1]
            /\ after[d1][d2] =
                  IF d1 = 0
                  THEN squared_distance(cepstrum,
                           ring.buffer[(ring.tail + CEPSTRAL_COEFFS_HISTORY_SIZE - d2)
                                           % CEPSTRAL_COEFFS_HISTORY_SIZE])
                  ELSE before[d1 - 1][d2 - 1]

\* C26: check_silence_compute_features returns None exactly when the total
\* band energy of the reference frame is below 0.04; then the cepstral
\* ring buffer and the cepstral difference buffer are as before the call;
\* otherwise exactly one entry has been pushed into each.
C26_SilentFrameKeepsBuffers ==
    [][(sfx # NotCreated /\ run'.calls = run.calls + 1) =>
          \A in \in run'.input :
              /\ ~sfx'.output.some <=> F32Lt(TotalBandEnergy(in), SILENCE_THRESHOLD)
              /\ ~sfx'.output.some =>
                    /\ sfx'.cepstral_coeffs_ring_buf = sfx.cepstral_coeffs_ring_buf
                    /\ sfx'.cepstral_diffs_buf = sfx.cepstral_diffs_buf
              /\ sfx'.output.some =>
                    /\ RingPushed(sfx.cepstral_coeffs_ring_buf,
                                  sfx'.cepstral_coeffs_ring_buf,
                                  corrected_cepstrum(in.log_cepstrum, F32_TWELVE, F32_FOUR))
                    /\ DiffsPushed(sfx.cepstral_diffs_buf, sfx'.cepstral_diffs_buf,
                                   sfx.cepstral_coeffs_ring_buf,
                                   corrected_cepstrum(in.log_cepstrum, F32_TWELVE, F32_FOUR))]_vars

\* A frame of total energy just below 0.04 after two non-silent frames:
\* None is returned, the buffers hold the two cepstra pushed before and
\* their distance.
C26_Witness ==
    /\ sfx # NotCreated
    /\ run.calls = 3
    /\ run.silent = 1
    /\ \A in \in run.input : in.reference = "Faint"
    /\ ~sfx.output.some
    /\ sfx.reference_frame_bands_energy[0] = F32_BELOW_THRESHOLD
    /\ sfx.cepstral_coeffs_ring_buf.tail = 2
    /\ ~is_zero(sfx.cepstral_coeffs_ring_buf.buffer[0][2])
    /\ ~is_zero(sfx.cepstral_coeffs_ring_buf.buffer[1][2])
    /\ F32Lt(F32Zero, sfx.cepstral_diffs_buf[0][1])

====
